---------------------------- MODULE Spec2Model ----------------------------
(***************************************************************************)
(* A model of phonemes2ids: the sentence -> ids encoder (phonemes2ids) and *)
(* the vocabulary learner (learn_phoneme_ids) of src/phonemes2ids.         *)
(*                                                                         *)
(* A character (codepoint) is a short string; a phoneme (symbol, token) is *)
(* a sequence of characters, so that the code's scans over a string (digit *)
(* stripping, separator splitting, NFD expansion) are scans here too.      *)
(* A Python Optional is a sequence of length 0 (None) or 1 (the value).    *)
(* A Python dict is a function whose DOMAIN is its key set.                *)
(***************************************************************************)
EXTENDS Integers, Sequences, FiniteSets, TLC

VARIABLES
    word_phonemes,      \* the input: a sequence of words, each a sequence of phonemes
    args,               \* the keyword arguments of the call (a record)
    pc,                 \* where the run is: "learn", "begin", "words", "done", "failed"; "call" in a caller
    learn_idx,          \* learn_phoneme_ids: index (from 0) of the next word of its loop
    all_phonemes,       \* learn_phoneme_ids: the set it accumulates
    all_phoneme_counts, \* learn_phoneme_ids: the Counter it accumulates (symbol -> count)
    word_idx,           \* phonemes2ids: index (from 0) of the next word of its loop
    blank_id,           \* phonemes2ids: Optional id of the blank
    blank_word_id,      \* phonemes2ids: Optional id of the word blank
    word_phoneme_ids,   \* phonemes2ids: the list of id lists it builds
    result,             \* phonemes2ids: Optional returned id list
    error,              \* phonemes2ids: Optional exception that ended the call
    log,                \* history: one entry per non-empty symbol handed to maybe_extend_ids
    calls,              \* a caller: the calls of phonemes2ids it makes, in order (their arguments)
    call_idx,           \* a caller: index (from 0) of its next call
    outputs,            \* a caller: what each finished call left (returned or raised, arguments)
    cli,                \* main: Optional namespace of the command line (main's "args")
    phonemes_file,      \* main: Optional lines of the --read-phonemes file
    phoneme_map_file,   \* main: Optional lines of the --phoneme-map file
    file_line,          \* a loader: index (from 0) of the next line of its loop
    main,               \* main: its locals phoneme_to_id, phoneme_map, separate, lines
    reader              \* main: the lines of standard input not read yet

\* What belongs to a caller of the two functions
caller_vars == <<calls, call_idx, outputs>>

\* What belongs to the command line program and the loaders
main_vars == <<cli, phonemes_file, phoneme_map_file, file_line, main, reader>>

vars == <<word_phonemes, args, pc, learn_idx, all_phonemes, all_phoneme_counts,
          word_idx, blank_id, blank_word_id, word_phoneme_ids, result, error, log,
          calls, call_idx, outputs,
          cli, phonemes_file, phoneme_map_file, file_line, main, reader>>

-----------------------------------------------------------------------------
(* Python values *)

None == <<>>
Some(x) == <<x>>

\* An exception: its class and its argument
Error(type, arg) == Some([type |-> type, arg |-> arg])

\* dict.get(key, default)
Get(d, key, default) == IF key \in DOMAIN d THEN d[key] ELSE default

\* "".join(reversed(s)) / list(reversed(s))
reversed(s) == [i \in 1..Len(s) |-> s[Len(s) + 1 - i]]

RECURSIVE chain_from_iterable(_)
\* itertools.chain.from_iterable over a sequence of sequences
chain_from_iterable(ss) ==
    IF ss = <<>> THEN <<>> ELSE Head(ss) \o chain_from_iterable(Tail(ss))

\* The characters str.isdigit accepts: the decimal digits, and digit characters
\* that are not decimal, such as the superscript two (written "sup2").
DecimalDigits == {"0", "1", "2", "3", "4", "5", "6", "7", "8", "9"}
isdigit(c) == c \in DecimalDigits \cup {"sup2"}

\* unicodedata.normalize("NFD", p) on one codepoint: a precomposed character
\* (written "a~" for a-tilde, U+00E3) becomes its base and its combining mark
\* ("~" for U+0303); every other character of the model is its own NFD.
NFD_codepoint(c) == IF c = "a~" THEN <<"a", "~">> ELSE <<c>>

\* unicodedata.normalize("NFD", p) on a string
normalize_NFD(p) == chain_from_iterable([i \in 1..Len(p) |-> NFD_codepoint(p[i])])

-----------------------------------------------------------------------------
(* const.py *)

\* STRESS: the primary stress U+02C8 is written "stress1", the secondary
\* stress U+02CC "stress2".
STRESS == {"stress1", "stress2"}

PUNCTUATION_MAP ==
    (<<";">> :> <<",">>) @@ (<<":">> :> <<",">>) @@ (<<"?">> :> <<".">>) @@ (<<"!">> :> <<".">>)

\* class BlankBetween(str, Enum): member name -> value
BlankBetween == ("TOKENS" :> "tokens") @@ ("WORDS" :> "words")

\* Evaluating the set display {BlankBetween.<n1>, BlankBetween.<n2>}: an
\* attribute the enum does not have raises AttributeError.
BlankBetweenSet(names) ==
    IF \E i \in 1..Len(names) : names[i] \notin DOMAIN BlankBetween
    THEN [raised |-> TRUE,
          name |-> names[CHOOSE i \in 1..Len(names) :
                            /\ names[i] \notin DOMAIN BlankBetween
                            /\ \A j \in 1..(i - 1) : names[j] \in DOMAIN BlankBetween],
          members |-> {}]
    ELSE [raised |-> FALSE, name |-> "",
          members |-> {BlankBetween[names[i]] : i \in 1..Len(names)}]

-----------------------------------------------------------------------------
(* phonemes2ids: argument defaults (lines 75-87) *)

phoneme_map == IF args.phoneme_map = None THEN <<>> ELSE args.phoneme_map[1]

punctuation_map ==
    IF args.punctuation_map = None THEN PUNCTUATION_MAP ELSE args.punctuation_map[1]

\* "if separate:" is false for None and for an empty collection
is_separate_given == args.separate # None /\ args.separate[1] # {}

\* missing_func(phoneme): the callable is a record [table, default]: the value
\* of table at phoneme when it has one, default otherwise. A value is an
\* Optional list of ids.
missing_func(phoneme) ==
    Get(args.missing_func[1].table, phoneme, args.missing_func[1].default)

-----------------------------------------------------------------------------
(* phonemes2ids: maybe_extend_ids (lines 102-128).  st is what the call can  *)
(* change: the target list, the history, and the exception once raised (no  *)
(* statement runs after a raise).                                           *)

LogEntry(phoneme, ids, called, raised) ==
    [phoneme |-> phoneme, ids |-> ids, missing_called |-> called, raised |-> raised]

\* maybe_extend_ids with "if maybe_id:" for "if maybe_id is not None:": the id 0
\* counts as missing
maybe_extend_ids_truthy_id(phoneme, st, append_list) ==
    IF st.err # None \/ phoneme = <<>> THEN st
    ELSE IF phoneme \in DOMAIN args.phoneme_to_id /\ args.phoneme_to_id[phoneme] # 0
    THEN LET maybe_id == args.phoneme_to_id[phoneme] IN
         [st EXCEPT !.target = Append(@, IF append_list THEN <<maybe_id>> ELSE maybe_id),
                    !.log = Append(@, LogEntry(phoneme, <<maybe_id>>, FALSE, FALSE))]
    ELSE LET called == args.missing_func # None
             maybe_ids == IF called THEN missing_func(phoneme) ELSE None
             ids == IF maybe_ids = None THEN <<>> ELSE maybe_ids[1]
         IN  IF called /\ ids # <<>>
             THEN [st EXCEPT !.target = IF append_list THEN Append(@, ids) ELSE @ \o ids,
                             !.log = Append(@, LogEntry(phoneme, ids, TRUE, FALSE))]
             ELSE IF args.fail_on_missing
             THEN [st EXCEPT !.err = Error("ValueError", phoneme),
                             !.log = Append(@, LogEntry(phoneme, <<>>, called, TRUE))]
             ELSE [st EXCEPT !.log = Append(@, LogEntry(phoneme, <<>>, called, FALSE))]

\* maybe_extend_ids with the "return" of line 125 one level out: a missing_func
\* that returns nothing suppresses the error of fail_on_missing
maybe_extend_ids_fallback_suppresses(phoneme, st, append_list) ==
    IF st.err # None \/ phoneme = <<>> THEN st
    ELSE IF phoneme \in DOMAIN args.phoneme_to_id
    THEN LET maybe_id == args.phoneme_to_id[phoneme] IN
         [st EXCEPT !.target = Append(@, IF append_list THEN <<maybe_id>> ELSE maybe_id),
                    !.log = Append(@, LogEntry(phoneme, <<maybe_id>>, FALSE, FALSE))]
    ELSE LET called == args.missing_func # None
             maybe_ids == IF called THEN missing_func(phoneme) ELSE None
             ids == IF maybe_ids = None THEN <<>> ELSE maybe_ids[1]
         IN  IF called
             THEN [st EXCEPT !.target = IF append_list /\ ids # <<>> THEN Append(@, ids)
                                        ELSE IF append_list THEN @ ELSE @ \o ids,
                             !.log = Append(@, LogEntry(phoneme, ids, TRUE, FALSE))]
             ELSE IF args.fail_on_missing
             THEN [st EXCEPT !.err = Error("ValueError", phoneme),
                             !.log = Append(@, LogEntry(phoneme, <<>>, called, TRUE))]
             ELSE [st EXCEPT !.log = Append(@, LogEntry(phoneme, <<>>, called, FALSE))]

maybe_extend_ids(phoneme, st, append_list) ==
    IF st.err # None \/ phoneme = <<>> THEN st
    ELSE IF phoneme \in DOMAIN args.phoneme_to_id
    THEN LET maybe_id == args.phoneme_to_id[phoneme] IN
         [st EXCEPT !.target = Append(@, IF append_list THEN <<maybe_id>> ELSE maybe_id),
                    !.log = Append(@, LogEntry(phoneme, <<maybe_id>>, FALSE, FALSE))]
    ELSE LET called == args.missing_func # None
             maybe_ids == IF called THEN missing_func(phoneme) ELSE None
             ids == IF maybe_ids = None THEN <<>> ELSE maybe_ids[1]
         IN  IF called /\ ids # <<>>
             THEN [st EXCEPT !.target = IF append_list THEN Append(@, ids) ELSE @ \o ids,
                             !.log = Append(@, LogEntry(phoneme, ids, TRUE, FALSE))]
             ELSE IF args.fail_on_missing
             THEN [st EXCEPT !.err = Error("ValueError", phoneme),
                             !.log = Append(@, LogEntry(phoneme, <<>>, called, TRUE))]
             ELSE [st EXCEPT !.log = Append(@, LogEntry(phoneme, <<>>, called, FALSE))]

NewSt(target) == [target |-> target, log |-> <<>>, err |-> None]

-----------------------------------------------------------------------------
(* phonemes2ids: one word of the loop (lines 139-245) *)

\* lines 142-147: the word as the list of the codepoints of its phonemes in NFD
separate_graphemes_word(word) ==
    LET chars == chain_from_iterable([i \in 1..Len(word) |-> normalize_NFD(word[i])])
    IN  [i \in 1..Len(chars) |-> <<chars[i]>>]

RECURSIVE strip_tone(_, _)
\* lines 157-159: strip digits off the back of the phoneme (reversed)
strip_tone(phoneme, tone_chars) ==
    IF phoneme # <<>> /\ isdigit(phoneme[Len(phoneme)])
    THEN strip_tone(SubSeq(phoneme, 1, Len(phoneme) - 1),
                    Append(tone_chars, phoneme[Len(phoneme)]))
    ELSE [phoneme |-> phoneme, tone_chars |-> tone_chars]

RECURSIVE split_separate_no_final_flush(_, _, _, _)
\* split_separate without lines 188-189: the run after the last separator is lost
split_separate_no_final_flush(phoneme, i, before_split, sub_phonemes) ==
    IF i > Len(phoneme) THEN sub_phonemes
    ELSE IF phoneme[i] \in args.separate[1]
    THEN split_separate_no_final_flush(phoneme, i + 1, <<>>,
                        Append(IF before_split # <<>>
                               THEN Append(sub_phonemes, before_split)
                               ELSE sub_phonemes,
                               <<phoneme[i]>>))
    ELSE split_separate_no_final_flush(phoneme, i + 1,
                                       Append(before_split, phoneme[i]), sub_phonemes)

RECURSIVE split_separate(_, _, _, _)
\* lines 174-189: the loop over the codepoints, from codepoint i on
split_separate(phoneme, i, before_split, sub_phonemes) ==
    IF i > Len(phoneme)
    THEN IF before_split # <<>> THEN Append(sub_phonemes, before_split) ELSE sub_phonemes
    ELSE IF phoneme[i] \in args.separate[1]
    THEN split_separate(phoneme, i + 1, <<>>,
                        Append(IF before_split # <<>>
                               THEN Append(sub_phonemes, before_split)
                               ELSE sub_phonemes,
                               <<phoneme[i]>>))
    ELSE split_separate(phoneme, i + 1, Append(before_split, phoneme[i]), sub_phonemes)

\* lines 168-189
get_sub_phonemes(phoneme) ==
    IF ~is_separate_given THEN <<phoneme>>
    ELSE split_separate(phoneme, 1, <<>>, <<>>)

\* simplify_punctuation without the test of simple_punctuation
simplify_punctuation_always(sub_phoneme) ==
    Get(punctuation_map, sub_phoneme, sub_phoneme)

\* lines 195-196
simplify_punctuation(sub_phoneme) ==
    IF args.simple_punctuation /\ DOMAIN punctuation_map # {}
    THEN Get(punctuation_map, sub_phoneme, sub_phoneme)
    ELSE sub_phoneme

RECURSIVE extend_each(_, _, _)
\* lines 201-202: for to_phoneme in to_phonemes
extend_each(to_phonemes, i, st) ==
    IF i > Len(to_phonemes) THEN st
    ELSE extend_each(to_phonemes, i + 1, maybe_extend_ids(to_phonemes[i], st, FALSE))

RECURSIVE resolve_sub_phonemes_map_first(_, _, _)
\* resolve_sub_phonemes with line 198 before lines 195-196: phoneme_map is
\* asked for the sub-phoneme as it was before the punctuation was simplified
resolve_sub_phonemes_map_first(sub_phonemes, i, st) ==
    IF i > Len(sub_phonemes) THEN st
    ELSE IF sub_phonemes[i] = <<>>
    THEN resolve_sub_phonemes_map_first(sub_phonemes, i + 1, st)
    ELSE LET to_phonemes == Get(phoneme_map, sub_phonemes[i], <<>>)
             sub_phoneme == simplify_punctuation(sub_phonemes[i])
         IN  resolve_sub_phonemes_map_first(sub_phonemes, i + 1,
                 IF to_phonemes # <<>>
                 THEN extend_each(to_phonemes, 1, st)
                 ELSE maybe_extend_ids(sub_phoneme, st, FALSE))

RECURSIVE resolve_sub_phonemes_and_original(_, _, _)
\* resolve_sub_phonemes with line 205 outside the else: a mapped sub-phoneme
\* is resolved itself after the phonemes it is mapped to
resolve_sub_phonemes_and_original(sub_phonemes, i, st) ==
    IF i > Len(sub_phonemes) THEN st
    ELSE IF sub_phonemes[i] = <<>>
    THEN resolve_sub_phonemes_and_original(sub_phonemes, i + 1, st)
    ELSE LET sub_phoneme == simplify_punctuation(sub_phonemes[i])
             to_phonemes == Get(phoneme_map, sub_phoneme, <<>>)
         IN  resolve_sub_phonemes_and_original(sub_phonemes, i + 1,
                 maybe_extend_ids(sub_phoneme,
                     IF to_phonemes # <<>> THEN extend_each(to_phonemes, 1, st) ELSE st,
                     FALSE))

RECURSIVE resolve_sub_phonemes(_, _, _)
\* lines 191-205: for sub_phoneme in sub_phonemes
resolve_sub_phonemes(sub_phonemes, i, st) ==
    IF i > Len(sub_phonemes) THEN st
    ELSE IF sub_phonemes[i] = <<>> THEN resolve_sub_phonemes(sub_phonemes, i + 1, st)
    ELSE LET sub_phoneme == simplify_punctuation(sub_phonemes[i])
             to_phonemes == Get(phoneme_map, sub_phoneme, <<>>)
         IN  resolve_sub_phonemes(sub_phonemes, i + 1,
                 IF to_phonemes # <<>>
                 THEN extend_each(to_phonemes, 1, st)
                 ELSE maybe_extend_ids(sub_phoneme, st, FALSE))

\* resolve_phoneme without the reversed() of line 162: the tone keeps the
\* order in which its digits were stripped
resolve_phoneme_unreversed(phoneme0, st) ==
    LET stripped == IF args.separate_tones THEN strip_tone(phoneme0, <<>>)
                    ELSE [phoneme |-> phoneme0, tone_chars |-> <<>>]
        phoneme == stripped.phoneme
        tone == stripped.tone_chars
        st1 == IF tone # <<>> /\ args.tone_before
               THEN maybe_extend_ids(tone, st, FALSE) ELSE st
        st2 == resolve_sub_phonemes(get_sub_phonemes(phoneme), 1, st1)
    IN  IF tone # <<>> /\ ~args.tone_before
        THEN maybe_extend_ids(tone, st2, FALSE) ELSE st2

\* lines 150-209: one phoneme of the word
resolve_phoneme(phoneme0, st) ==
    LET stripped == IF args.separate_tones THEN strip_tone(phoneme0, <<>>)
                    ELSE [phoneme |-> phoneme0, tone_chars |-> <<>>]
        phoneme == stripped.phoneme
        tone == reversed(stripped.tone_chars)
        st1 == IF tone # <<>> /\ args.tone_before
               THEN maybe_extend_ids(tone, st, FALSE) ELSE st
        st2 == resolve_sub_phonemes(get_sub_phonemes(phoneme), 1, st1)
    IN  IF tone # <<>> /\ ~args.tone_before
        THEN maybe_extend_ids(tone, st2, FALSE) ELSE st2

RECURSIVE resolve_word(_, _, _)
\* lines 149-209: for phoneme in word
resolve_word(word, i, st) ==
    IF i > Len(word) THEN st
    ELSE resolve_word(word, i + 1, resolve_phoneme(word[i], st))

\* lines 224-234: [p, blank, p, blank, ...]
interleave(word_ids, blank) ==
    [i \in 1..(2 * Len(word_ids)) |-> IF i % 2 = 1 THEN word_ids[(i + 1) \div 2] ELSE blank]

\* list.pop()
pop(s) == SubSeq(s, 1, Len(s) - 1)

\* add_word_ids without the else of lines 243-245: a word is added only when
\* blanks go between its tokens
add_word_ids_no_else(ids0, last) ==
    IF blank_id # None /\ args.blank_between = "tokens" /\ ids0 # <<>>
    THEN [err |-> None,
          added |-> << [i \in 1..(2 * Len(ids0)) |->
                          IF i % 2 = 1 THEN ids0[(i + 1) \div 2] ELSE blank_id[1]] >>]
    ELSE [err |-> None, added |-> <<>>]

\* lines 211-245: what the word adds to word_phoneme_ids, or the exception.
\* ids0 are the word's ids, last whether word_idx = last_word_idx.
add_word_ids(ids0, last) ==
    IF ids0 = <<>> THEN [err |-> None, added |-> <<>>]
    ELSE
    LET words_set == BlankBetweenSet(<<"WORDS", "TOKENS_AND_WORDS">>)
        tokens_set == BlankBetweenSet(<<"TOKENS", "TOKENS_AND_WORDS">>)
        attr_error(name) == [err |-> Error("AttributeError", name), added |-> <<>>]
    IN  IF blank_word_id # None /\ words_set.raised THEN attr_error(words_set.name)
        ELSE
        LET word_ids ==
                IF /\ blank_word_id # None
                   /\ args.blank_between \in words_set.members
                   /\ (~last \/ args.blank_at_end)
                THEN Append(ids0, blank_word_id[1]) ELSE ids0
        IN  IF blank_id # None /\ tokens_set.raised THEN attr_error(tokens_set.name)
            ELSE IF blank_id # None /\ args.blank_between \in tokens_set.members
            THEN LET with_blanks == interleave(word_ids, blank_id[1]) IN
                 [err |-> None,
                  added |-> << IF last /\ ~args.blank_at_end /\ with_blanks # <<>>
                               THEN pop(with_blanks) ELSE with_blanks >>]
            ELSE [err |-> None, added |-> <<word_ids>>]

-----------------------------------------------------------------------------
(* learn_phoneme_ids (lines 257-362).  acc is what the call changes: the    *)
(* set all_phonemes and the Counter all_phoneme_counts.                      *)

\* learn_add with "all_phoneme_counts[p] = 1" for "+= 1": the count of a
\* symbol seen before starts again
learn_add_count_reset(p, acc) ==
    [all_phonemes |-> acc.all_phonemes \cup {p},
     all_phoneme_counts |->
        [q \in DOMAIN acc.all_phoneme_counts \cup {p} |->
            IF q = p THEN 1 ELSE acc.all_phoneme_counts[q]]]

\* all_phonemes.add(p); all_phoneme_counts[p] += 1
learn_add(p, acc) ==
    [all_phonemes |-> acc.all_phonemes \cup {p},
     all_phoneme_counts |->
        [q \in DOMAIN acc.all_phoneme_counts \cup {p} |->
            Get(acc.all_phoneme_counts, q, 0) + (IF q = p THEN 1 ELSE 0)]]

\* lines 296-301
learn_separate_graphemes_word(word) ==
    LET chars == chain_from_iterable([i \in 1..Len(word) |-> normalize_NFD(word[i])])
    IN  [i \in 1..Len(chars) |-> <<chars[i]>>]

RECURSIVE learn_strip_tone(_, _)
\* lines 309-311
learn_strip_tone(phoneme, tone_chars) ==
    IF phoneme # <<>> /\ isdigit(phoneme[Len(phoneme)])
    THEN learn_strip_tone(SubSeq(phoneme, 1, Len(phoneme) - 1),
                          Append(tone_chars, phoneme[Len(phoneme)]))
    ELSE [phoneme |-> phoneme, tone_chars |-> tone_chars]

RECURSIVE learn_split_separate(_, _, _, _)
\* lines 325-340
learn_split_separate(phoneme, i, before_split, sub_phonemes) ==
    IF i > Len(phoneme)
    THEN IF before_split # <<>> THEN Append(sub_phonemes, before_split) ELSE sub_phonemes
    ELSE IF phoneme[i] \in args.separate[1]
    THEN learn_split_separate(phoneme, i + 1, <<>>,
                              Append(IF before_split # <<>>
                                     THEN Append(sub_phonemes, before_split)
                                     ELSE sub_phonemes,
                                     <<phoneme[i]>>))
    ELSE learn_split_separate(phoneme, i + 1, Append(before_split, phoneme[i]),
                              sub_phonemes)

\* lines 319-340
learn_get_sub_phonemes(phoneme) ==
    IF ~is_separate_given THEN <<phoneme>>
    ELSE learn_split_separate(phoneme, 1, <<>>, <<>>)

\* lines 346-347
learn_simplify_punctuation(sub_phoneme) ==
    IF args.simple_punctuation
    THEN Get(punctuation_map, sub_phoneme, sub_phoneme)
    ELSE sub_phoneme

RECURSIVE learn_add_each(_, _, _)
\* lines 352-356: for to_phoneme in to_phonemes
learn_add_each(to_phonemes, i, acc) ==
    IF i > Len(to_phonemes) THEN acc
    ELSE learn_add_each(to_phonemes, i + 1, learn_add(to_phonemes[i], acc))

RECURSIVE learn_sub_phonemes(_, _, _)
\* lines 342-362: for sub_phoneme in sub_phonemes
learn_sub_phonemes(sub_phonemes, i, acc) ==
    IF i > Len(sub_phonemes) THEN acc
    ELSE IF sub_phonemes[i] = <<>> THEN learn_sub_phonemes(sub_phonemes, i + 1, acc)
    ELSE LET sub_phoneme == learn_simplify_punctuation(sub_phonemes[i])
             to_phonemes == Get(phoneme_map, sub_phoneme, <<>>)
         IN  learn_sub_phonemes(sub_phonemes, i + 1,
                 IF to_phonemes # <<>>
                 THEN learn_add_each(to_phonemes, 1, acc)
                 ELSE learn_add(sub_phoneme, acc))

\* lines 304-362: one phoneme of the word
learn_phoneme(phoneme0, acc) ==
    LET stripped == IF args.separate_tones THEN learn_strip_tone(phoneme0, <<>>)
                    ELSE [phoneme |-> phoneme0, tone_chars |-> <<>>]
        tone == reversed(stripped.tone_chars)
        acc1 == IF stripped.tone_chars # <<>> THEN learn_add(tone, acc) ELSE acc
    IN  learn_sub_phonemes(learn_get_sub_phonemes(stripped.phoneme), 1, acc1)

RECURSIVE learn_word(_, _, _)
\* lines 303-362: for phoneme in word
learn_word(word, i, acc) ==
    IF i > Len(word) THEN acc
    ELSE learn_word(word, i + 1, learn_phoneme(word[i], acc))

-----------------------------------------------------------------------------
(* The calls, step by step.  As in main (__main__.py lines 239 and 264) the *)
(* input is first given to learn_phoneme_ids and then to phonemes2ids.      *)

\* "if s:" for an Optional[str]: false for None and for the empty string
truthy(s) == s # None /\ s[1] # <<>>

Tagged(entries, at) ==
    [i \in 1..Len(entries) |->
        [phoneme |-> entries[i].phoneme, ids |-> entries[i].ids,
         missing_called |-> entries[i].missing_called,
         raised |-> entries[i].raised, at |-> at]]

\* learn_phoneme_ids, lines 295-362: one iteration of "for word in word_phonemes"
LearnWord ==
    /\ pc = "learn"
    /\ learn_idx < Len(word_phonemes)
    /\ LET word0 == word_phonemes[learn_idx + 1]
           word == IF args.separate_graphemes
                   THEN learn_separate_graphemes_word(word0) ELSE word0
           acc == learn_word(word, 1, [all_phonemes |-> all_phonemes,
                                       all_phoneme_counts |-> all_phoneme_counts])
       IN  /\ all_phonemes' = acc.all_phonemes
           /\ all_phoneme_counts' = acc.all_phoneme_counts
    /\ learn_idx' = learn_idx + 1
    /\ UNCHANGED <<word_phonemes, args, pc, word_idx, blank_id, blank_word_id,
                   word_phoneme_ids, result, error, log>>
    /\ UNCHANGED caller_vars
    /\ UNCHANGED main_vars

\* learn_phoneme_ids returns (the loop is over); phonemes2ids is called next
LearnReturn ==
    /\ pc = "learn"
    /\ learn_idx = Len(word_phonemes)
    /\ pc' = "begin"
    /\ UNCHANGED <<word_phonemes, args, learn_idx, all_phonemes, all_phoneme_counts,
                   word_idx, blank_id, blank_word_id, word_phoneme_ids, result,
                   error, log>>
    /\ UNCHANGED caller_vars
    /\ UNCHANGED main_vars

\* begin_call with the list of line 100 kept between calls (a list made once,
\* as a module-level list or a mutable default argument is): a call starts
\* from what the call before it left
begin_call_keeps_list ==
    LET table == args.phoneme_to_id
        failed(err) == [err |-> err, blank_id |-> None, blank_word_id |-> None,
                        word_phoneme_ids |-> word_phoneme_ids, log |-> <<>>]
    IN  IF truthy(args.blank) /\ args.blank[1] \notin DOMAIN table
        THEN failed(Error("KeyError", args.blank[1]))
        ELSE IF truthy(args.blank_word) /\ args.blank_word[1] \notin DOMAIN table
        THEN failed(Error("KeyError", args.blank_word[1]))
        ELSE
        LET bid == IF truthy(args.blank) THEN Some(table[args.blank[1]]) ELSE None
            bwid == IF truthy(args.blank_word) THEN Some(table[args.blank_word[1]])
                    ELSE bid
            st == IF truthy(args.bos)
                  THEN maybe_extend_ids(args.bos[1], NewSt(word_phoneme_ids), TRUE)
                  ELSE NewSt(word_phoneme_ids)
        IN  [err |-> st.err, blank_id |-> bid, blank_word_id |-> bwid,
             word_phoneme_ids |->
                IF st.err = None /\ bid # None /\ args.blank_at_start
                THEN Append(st.target, <<bid[1]>>) ELSE st.target,
             log |-> st.log]

\* begin_call with phoneme_to_id.get(blank) for phoneme_to_id[blank] (lines 92,
\* 93, 97): a blank that is not in the table is no blank, and nothing is raised
begin_call_blank_get ==
    LET table == args.phoneme_to_id
        bid == IF truthy(args.blank) /\ args.blank[1] \in DOMAIN table
               THEN Some(table[args.blank[1]]) ELSE None
        bwid == IF truthy(args.blank_word) /\ args.blank_word[1] \in DOMAIN table
                THEN Some(table[args.blank_word[1]]) ELSE bid
        st == IF truthy(args.bos)
              THEN maybe_extend_ids(args.bos[1], NewSt(<<>>), TRUE)
              ELSE NewSt(<<>>)
    IN  [err |-> st.err, blank_id |-> bid, blank_word_id |-> bwid,
         word_phoneme_ids |->
            IF st.err = None /\ bid # None /\ args.blank_at_start
            THEN Append(st.target, <<bid[1]>>) ELSE st.target,
         log |-> st.log]

\* phonemes2ids, lines 89-136: the blank ids, bos, the blank at the start
begin_call ==
    LET table == args.phoneme_to_id
        failed(err) == [err |-> err, blank_id |-> None, blank_word_id |-> None,
                        word_phoneme_ids |-> <<>>, log |-> <<>>]
    IN  IF truthy(args.blank) /\ args.blank[1] \notin DOMAIN table
        THEN failed(Error("KeyError", args.blank[1]))
        ELSE IF truthy(args.blank_word) /\ args.blank_word[1] \notin DOMAIN table
        THEN failed(Error("KeyError", args.blank_word[1]))
        ELSE
        LET bid == IF truthy(args.blank) THEN Some(table[args.blank[1]]) ELSE None
            bwid == IF truthy(args.blank_word) THEN Some(table[args.blank_word[1]])
                    ELSE bid
            st == IF truthy(args.bos)
                  THEN maybe_extend_ids(args.bos[1], NewSt(<<>>), TRUE)
                  ELSE NewSt(<<>>)
        IN  [err |-> st.err, blank_id |-> bid, blank_word_id |-> bwid,
             word_phoneme_ids |->
                IF st.err = None /\ bid # None /\ args.blank_at_start
                THEN Append(st.target, <<bid[1]>>) ELSE st.target,
             log |-> st.log]

Begin ==
    /\ pc = "begin"
    /\ LET r == begin_call IN
        /\ blank_id' = r.blank_id
        /\ blank_word_id' = r.blank_word_id
        /\ word_phoneme_ids' = r.word_phoneme_ids
        /\ log' = log \o Tagged(r.log, "bos")
        /\ error' = r.err
        /\ pc' = IF r.err = None THEN "words" ELSE "failed"
    /\ UNCHANGED <<word_phonemes, args, learn_idx, all_phonemes, all_phoneme_counts,
                   word_idx, result>>
    /\ UNCHANGED caller_vars
    /\ UNCHANGED main_vars

\* phonemes2ids, lines 139-245: one iteration of "for word_idx, word in ..."
Word ==
    /\ pc = "words"
    /\ word_idx < Len(word_phonemes)
    /\ LET word0 == word_phonemes[word_idx + 1]
           word == IF args.separate_graphemes
                   THEN separate_graphemes_word(word0) ELSE word0
           st == resolve_word(word, 1, NewSt(<<>>))
           r == IF st.err # None THEN [err |-> st.err, added |-> <<>>]
                ELSE add_word_ids(st.target, word_idx = Len(word_phonemes) - 1)
       IN  /\ log' = log \o Tagged(st.log, "word")
           /\ error' = r.err
           /\ word_phoneme_ids' = word_phoneme_ids \o r.added
           /\ pc' = IF r.err = None THEN "words" ELSE "failed"
           /\ word_idx' = IF r.err = None THEN word_idx + 1 ELSE word_idx
    /\ UNCHANGED <<word_phonemes, args, learn_idx, all_phonemes, all_phoneme_counts,
                   blank_id, blank_word_id, result>>
    /\ UNCHANGED caller_vars
    /\ UNCHANGED main_vars

\* phonemes2ids, lines 247-251: eos, and the flat list returned
End ==
    /\ pc = "words"
    /\ word_idx = Len(word_phonemes)
    /\ LET st == IF truthy(args.eos)
                 THEN maybe_extend_ids(args.eos[1], NewSt(word_phoneme_ids), TRUE)
                 ELSE NewSt(word_phoneme_ids)
       IN  /\ log' = log \o Tagged(st.log, "eos")
           /\ error' = st.err
           /\ word_phoneme_ids' = st.target
           /\ result' = IF st.err = None THEN Some(chain_from_iterable(st.target))
                        ELSE None
           /\ pc' = IF st.err = None THEN "done" ELSE "failed"
    /\ UNCHANGED <<word_phonemes, args, learn_idx, all_phonemes, all_phoneme_counts,
                   word_idx, blank_id, blank_word_id>>
    /\ UNCHANGED caller_vars
    /\ UNCHANGED main_vars

Next == LearnWord \/ LearnReturn \/ Begin \/ Word \/ End

\* A caller that calls phonemes2ids several times, as the tests do: the call
\* binds the arguments and starts the function with fresh locals
Call ==
    /\ pc = "call"
    /\ call_idx < Len(calls)
    /\ word_phonemes' = calls[call_idx + 1].word_phonemes
    /\ args' = calls[call_idx + 1].args
    /\ word_idx' = 0
    /\ result' = None
    /\ error' = None
    /\ log' = <<>>
    /\ pc' = "begin"
    /\ UNCHANGED <<learn_idx, all_phonemes, all_phoneme_counts, blank_id, blank_word_id,
                   word_phoneme_ids, calls, call_idx, outputs>>
    /\ UNCHANGED main_vars

\* The call is over, by return or by an exception the caller catches: the
\* caller holds the outcome, and its arguments as the call left them
Return ==
    /\ pc \in {"done", "failed"}
    /\ call_idx < Len(calls)
    /\ outputs' = Append(outputs, [result |-> result, error |-> error,
                                   word_phonemes |-> word_phonemes, args |-> args])
    /\ call_idx' = call_idx + 1
    /\ pc' = "call"
    /\ UNCHANGED <<word_phonemes, args, learn_idx, all_phonemes, all_phoneme_counts,
                   word_idx, blank_id, blank_word_id, word_phoneme_ids, result, error,
                   log, calls>>
    /\ UNCHANGED main_vars

NextCalls == Call \/ Begin \/ Word \/ End \/ Return

\* A caller that calls learn_phoneme_ids several times on the same set and
\* Counter, as main does for every line (__main__.py lines 215-248)
LearnCall ==
    /\ pc = "call"
    /\ call_idx < Len(calls)
    /\ word_phonemes' = calls[call_idx + 1].word_phonemes
    /\ args' = calls[call_idx + 1].args
    /\ learn_idx' = 0
    /\ pc' = "learn"
    /\ UNCHANGED <<all_phonemes, all_phoneme_counts, word_idx, blank_id, blank_word_id,
                   word_phoneme_ids, result, error, log, calls, call_idx, outputs>>
    /\ UNCHANGED main_vars

\* learn_phoneme_ids returns (the loop is over): the caller looks at the set
\* and the Counter
LearnCallReturn ==
    /\ pc = "learn"
    /\ learn_idx = Len(word_phonemes)
    /\ outputs' = Append(outputs, [all_phonemes |-> all_phonemes,
                                   all_phoneme_counts |-> all_phoneme_counts])
    /\ call_idx' = call_idx + 1
    /\ pc' = "call"
    /\ UNCHANGED <<word_phonemes, args, learn_idx, all_phonemes, all_phoneme_counts,
                   word_idx, blank_id, blank_word_id, word_phoneme_ids, result, error,
                   log, calls>>
    /\ UNCHANGED main_vars

NextLearn == LearnCall \/ LearnWord \/ LearnCallReturn

-----------------------------------------------------------------------------
(* utils.py: the loaders.  A file is a sequence of lines, a line a sequence
   of characters that ends with its line break ("LF", or "CR" "LF") when it
   has one. *)

\* The characters str.strip() and str.split() without arguments take as
\* whitespace
WHITESPACE == {" ", "TAB", "LF", "CR"}

RECURSIVE lstrip(_, _)
lstrip(s, chars) ==
    IF s # <<>> /\ Head(s) \in chars THEN lstrip(Tail(s), chars) ELSE s

\* s.strip(chars)
strip(s, chars) == reversed(lstrip(reversed(lstrip(s, chars)), chars))

\* c in s
contains(s, c) == \E i \in 1..Len(s) : s[i] = c

\* The position of the first character of s that is in chars; Len(s) + 1
\* when there is none
find(s, chars) ==
    IF \E i \in 1..Len(s) : s[i] \in chars
    THEN CHOOSE i \in 1..Len(s) : s[i] \in chars /\ \A j \in 1..(i - 1) : s[j] \notin chars
    ELSE Len(s) + 1

\* s.split(" ", maxsplit=1) of a string with a space in it
split_maxsplit_1(s) ==
    LET i == find(s, {" "})
    IN  <<SubSeq(s, 1, i - 1), SubSeq(s, i + 1, Len(s))>>

RECURSIVE split(_)
\* s.split(): the runs of characters between whitespace
split(s) ==
    LET t == lstrip(s, WHITESPACE)
        n == find(t, WHITESPACE)
    IN  IF t = <<>> THEN <<>>
        ELSE <<SubSeq(t, 1, n - 1)>> \o split(SubSeq(t, n, Len(t)))

DigitValue ==
    ("0" :> 0) @@ ("1" :> 1) @@ ("2" :> 2) @@ ("3" :> 3) @@ ("4" :> 4)
    @@ ("5" :> 5) @@ ("6" :> 6) @@ ("7" :> 7) @@ ("8" :> 8) @@ ("9" :> 9)

RECURSIVE decimal(_)
decimal(s) ==
    IF s = <<>> THEN 0
    ELSE decimal(SubSeq(s, 1, Len(s) - 1)) * 10 + DigitValue[s[Len(s)]]

\* int(s): Optional value; None stands for the ValueError int raises. The
\* text is stripped of whitespace and must then be decimal digits (the files
\* of the model have no sign and no underscore in them).
int(s) ==
    LET t == strip(s, WHITESPACE)
    IN  IF t # <<>> /\ \A i \in 1..Len(t) : t[i] \in DecimalDigits
        THEN Some(decimal(t)) ELSE None

\* utils.py lines 20 and 47: blank lines, comments, or malformed lines
is_excluded(line) == line = <<>> \/ Head(line) = "#" \/ ~contains(line, " ")

\* load_phoneme_ids, lines 19-25: one iteration of "for line in phonemes_file"
load_phoneme_ids_line(line0, phoneme_to_id) ==
    LET line == strip(line0, {"CR", "LF"})
        parts == split_maxsplit_1(line)
        phoneme_id == parts[1]
        phoneme_str == parts[2]
    IN  IF is_excluded(line) THEN [err |-> None, phoneme_to_id |-> phoneme_to_id]
        ELSE IF int(phoneme_id) = None
        THEN [err |-> Error("ValueError", phoneme_id), phoneme_to_id |-> phoneme_to_id]
        ELSE [err |-> None,
              phoneme_to_id |-> (phoneme_str :> int(phoneme_id)[1]) @@ phoneme_to_id]

\* load_phoneme_map, lines 46-57: one iteration of "for line in phoneme_map_file"
load_phoneme_map_line(line0, map) ==
    LET line == strip(line0, {"CR", "LF"})
        parts == split_maxsplit_1(line)
        from_phoneme == parts[1]
        to_phonemes_str == parts[2]
    IN  IF is_excluded(line) THEN map
        ELSE IF strip(to_phonemes_str, WHITESPACE) = <<>>
        THEN (from_phoneme :> << <<" ">> >>) @@ map
        ELSE (from_phoneme :> split(to_phonemes_str)) @@ map

\* load_phoneme_map reads a line (called from __main__.py line 147)
LoadPhonemeMapLine ==
    /\ pc = "load_phoneme_map"
    /\ phoneme_map_file # None
    /\ file_line < Len(phoneme_map_file[1])
    /\ main' = [main EXCEPT !.phoneme_map =
                    load_phoneme_map_line(phoneme_map_file[1][file_line + 1], @)]
    /\ file_line' = file_line + 1
    /\ UNCHANGED <<word_phonemes, args, pc, learn_idx, all_phonemes, all_phoneme_counts,
                   word_idx, blank_id, blank_word_id, word_phoneme_ids, result, error,
                   log, cli, phonemes_file, phoneme_map_file, reader>>
    /\ UNCHANGED caller_vars

\* __main__.py lines 144-159: the phoneme map is loaded, or no file was named
MainPhonemeMapLoaded ==
    /\ pc = "load_phoneme_map"
    /\ IF phoneme_map_file = None THEN TRUE ELSE file_line = Len(phoneme_map_file[1])
    /\ file_line' = 0
    /\ pc' = "load_phoneme_ids"
    /\ UNCHANGED <<word_phonemes, args, learn_idx, all_phonemes, all_phoneme_counts,
                   word_idx, blank_id, blank_word_id, word_phoneme_ids, result, error,
                   log, cli, phonemes_file, phoneme_map_file, main, reader>>
    /\ UNCHANGED caller_vars

\* load_phoneme_ids reads a line (called from __main__.py line 165); the
\* ValueError of int ends the program
LoadPhonemeIdsLine ==
    /\ pc = "load_phoneme_ids"
    /\ phonemes_file # None
    /\ file_line < Len(phonemes_file[1])
    /\ LET r == load_phoneme_ids_line(phonemes_file[1][file_line + 1], main.phoneme_to_id)
       IN  /\ main' = [main EXCEPT !.phoneme_to_id = r.phoneme_to_id]
           /\ error' = r.err
           /\ pc' = IF r.err = None THEN pc ELSE "failed"
           /\ file_line' = IF r.err = None THEN file_line + 1 ELSE file_line
    /\ UNCHANGED <<word_phonemes, args, learn_idx, all_phonemes, all_phoneme_counts,
                   word_idx, blank_id, blank_word_id, word_phoneme_ids, result,
                   log, cli, phonemes_file, phoneme_map_file, reader>>
    /\ UNCHANGED caller_vars

\* __main__.py lines 161-165: the table is loaded, or no file was named
MainPhonemesLoaded ==
    /\ pc = "load_phoneme_ids"
    /\ IF phonemes_file = None THEN TRUE ELSE file_line = Len(phonemes_file[1])
    /\ file_line' = 0
    /\ pc' = "setup"
    /\ UNCHANGED <<word_phonemes, args, learn_idx, all_phonemes, all_phoneme_counts,
                   word_idx, blank_id, blank_word_id, word_phoneme_ids, result, error,
                   log, cli, phonemes_file, phoneme_map_file, main, reader>>
    /\ UNCHANGED caller_vars

NextLoad ==
    LoadPhonemeMapLine \/ MainPhonemeMapLoaded \/ LoadPhonemeIdsLine \/ MainPhonemesLoaded

-----------------------------------------------------------------------------
(* __main__.py: the command line program *)

\* ord(c) of the characters of the model
ord ==
    ("TAB" :> 9) @@ ("LF" :> 10) @@ ("CR" :> 13) @@ (" " :> 32) @@ ("!" :> 33)
    @@ ("#" :> 35) @@ ("$" :> 36) @@ ("," :> 44) @@ ("." :> 46) @@ ("0" :> 48)
    @@ ("1" :> 49) @@ ("2" :> 50) @@ ("3" :> 51) @@ ("4" :> 52) @@ ("5" :> 53)
    @@ ("6" :> 54) @@ ("7" :> 55) @@ ("8" :> 56) @@ ("9" :> 57) @@ (":" :> 58)
    @@ (";" :> 59) @@ ("?" :> 63) @@ ("^" :> 94) @@ ("_" :> 95) @@ ("a" :> 97)
    @@ ("b" :> 98) @@ ("x" :> 120) @@ ("|" :> 124) @@ ("sup2" :> 178)
    @@ ("a~" :> 227) @@ ("stress1" :> 712) @@ ("stress2" :> 716) @@ ("~" :> 771)

RECURSIVE str_lt(_, _)
\* s < t for two strings: by code point, a prefix first
str_lt(s, t) ==
    IF t = <<>> THEN FALSE
    ELSE IF s = <<>> THEN TRUE
    ELSE IF s[1] # t[1] THEN ord[s[1]] < ord[t[1]]
    ELSE str_lt(Tail(s), Tail(t))

RECURSIVE sorted(_)
\* sorted(S) of a set of strings
sorted(S) ==
    IF S = {} THEN <<>>
    ELSE LET m == CHOOSE x \in S : \A y \in S \ {x} : str_lt(x, y)
         IN  <<m>> \o sorted(S \ {m})

\* len(d) of a dict
len(d) == Cardinality(DOMAIN d)

\* "if phoneme not in phoneme_to_id: phoneme_to_id[phoneme] = len(phoneme_to_id)"
\* (lines 167-181, 191-192, 252-253)
add_phoneme(phoneme_to_id, phoneme) ==
    IF phoneme \in DOMAIN phoneme_to_id THEN phoneme_to_id
    ELSE (phoneme :> len(phoneme_to_id)) @@ phoneme_to_id

\* lines 167-181: "if args.pad and (args.pad not in phoneme_to_id): ..."
add_mark(phoneme_to_id, mark) ==
    IF truthy(mark) THEN add_phoneme(phoneme_to_id, mark[1]) ELSE phoneme_to_id

RECURSIVE add_phonemes(_, _)
\* the loops of lines 189-192 and 251-253 over a sorted list
add_phonemes(phoneme_to_id, phonemes) ==
    IF phonemes = <<>> THEN phoneme_to_id
    ELSE add_phonemes(add_phoneme(phoneme_to_id, Head(phonemes)), Tail(phonemes))

RECURSIVE split_sep(_, _)
\* s.split(sep) for a separator of one character
split_sep(s, sep) ==
    LET n == find(s, {sep})
    IN  IF n > Len(s) THEN <<s>>
        ELSE <<SubSeq(s, 1, n - 1)>> \o split_sep(SubSeq(s, n + 1, Len(s)), sep)

\* list(word): every character a phoneme
list(word) == [i \in 1..Len(word) |-> <<word[i]>>]

\* The keyword arguments main gives learn_phoneme_ids (lines 239-248) and
\* phonemes2ids (lines 264-280); the rest are the defaults of the functions
main_kwargs ==
    [phoneme_to_id |-> main.phoneme_to_id,
     bos |-> cli[1].bos, eos |-> cli[1].eos, blank |-> cli[1].blank,
     blank_word |-> None, blank_between |-> cli[1].blank_between,
     blank_at_start |-> ~cli[1].no_blank_start, blank_at_end |-> ~cli[1].no_blank_end,
     simple_punctuation |-> cli[1].simple_punctuation, punctuation_map |-> None,
     separate |-> Some(main.separate),
     separate_graphemes |-> cli[1].separate_graphemes,
     separate_tones |-> cli[1].separate_tones, tone_before |-> cli[1].tone_before,
     phoneme_map |-> Some(main.phoneme_map), missing_func |-> None,
     fail_on_missing |-> FALSE]

\* lines 167-213: the marks and the stress symbols get ids, and the set of
\* phonemes starts from the table
MainSetup ==
    /\ pc = "setup"
    /\ LET marked == add_mark(add_mark(add_mark(add_mark(main.phoneme_to_id,
                          cli[1].pad), cli[1].bos), cli[1].eos), cli[1].blank)
           given == IF cli[1].separate # None THEN cli[1].separate[1] ELSE {}
           table == IF cli[1].separate_stress
                    THEN add_phonemes(marked, [i \in 1..Len(sorted({<<c>> : c \in STRESS}))
                                                 |-> sorted({<<c>> : c \in STRESS})[i]])
                    ELSE marked
       IN  /\ main' = [main EXCEPT !.phoneme_to_id = table,
                                   !.separate = IF cli[1].separate_stress
                                                THEN given \cup STRESS ELSE given]
           /\ all_phonemes' = DOMAIN table \cup
                                (IF cli[1].simple_punctuation
                                 THEN {PUNCTUATION_MAP[k] : k \in DOMAIN PUNCTUATION_MAP}
                                 ELSE {})
    /\ all_phoneme_counts' = <<>>
    /\ pc' = "read"
    /\ UNCHANGED <<word_phonemes, args, learn_idx, word_idx, blank_id, blank_word_id,
                   word_phoneme_ids, result, error, log, cli, phonemes_file,
                   phoneme_map_file, file_line, reader>>
    /\ UNCHANGED caller_vars

\* lines 217-248: a line of the input is read, split into words and phonemes,
\* kept, and handed to learn_phoneme_ids; an empty line is passed over
MainReadLine ==
    /\ pc = "read"
    /\ reader # <<>>
    /\ reader' = Tail(reader)
    /\ LET phonemes_str == strip(Head(reader), WHITESPACE)
           words == split_sep(phonemes_str, " ")
           line_phonemes == [i \in 1..Len(words) |-> list(words[i])]
       IN  IF phonemes_str = <<>>
           THEN UNCHANGED <<word_phonemes, args, pc, learn_idx, main>>
           ELSE /\ word_phonemes' = line_phonemes
                /\ main' = [main EXCEPT !.lines = Append(@, line_phonemes)]
                /\ args' = main_kwargs
                /\ learn_idx' = 0
                /\ pc' = "learn"
    /\ UNCHANGED <<all_phonemes, all_phoneme_counts, word_idx, blank_id, blank_word_id,
                   word_phoneme_ids, result, error, log, cli, phonemes_file,
                   phoneme_map_file, file_line>>
    /\ UNCHANGED caller_vars

\* learn_phoneme_ids returns to the loop of line 217
MainLearned ==
    /\ pc = "learn"
    /\ learn_idx = Len(word_phonemes)
    /\ pc' = "read"
    /\ UNCHANGED <<word_phonemes, args, learn_idx, all_phonemes, all_phoneme_counts,
                   word_idx, blank_id, blank_word_id, word_phoneme_ids, result,
                   error, log>>
    /\ UNCHANGED caller_vars
    /\ UNCHANGED main_vars

\* lines 250-253: the input is read; the phonemes without an id get one, in
\* sorted order
MainAssign ==
    /\ pc = "read"
    /\ reader = <<>>
    /\ main' = [main EXCEPT !.phoneme_to_id = add_phonemes(@, sorted(all_phonemes))]
    /\ call_idx' = 0
    /\ pc' = "encode"
    /\ UNCHANGED <<word_phonemes, args, learn_idx, all_phonemes, all_phoneme_counts,
                   word_idx, blank_id, blank_word_id, word_phoneme_ids, result,
                   error, log, calls, outputs, cli, phonemes_file, phoneme_map_file,
                   file_line, reader>>

\* lines 257-280: phonemes2ids is called for the next kept line
MainEncodeLine ==
    /\ pc = "encode"
    /\ call_idx < Len(main.lines)
    /\ word_phonemes' = main.lines[call_idx + 1]
    /\ args' = main_kwargs
    /\ word_idx' = 0
    /\ result' = None
    /\ error' = None
    /\ log' = <<>>
    /\ pc' = "begin"
    /\ UNCHANGED <<learn_idx, all_phonemes, all_phoneme_counts, blank_id, blank_word_id,
                   word_phoneme_ids>>
    /\ UNCHANGED caller_vars
    /\ UNCHANGED main_vars

\* lines 282-296: the ids of the line are printed
MainPrint ==
    /\ pc = "done"
    /\ outputs' = Append(outputs, result[1])
    /\ call_idx' = call_idx + 1
    /\ pc' = "encode"
    /\ UNCHANGED <<word_phonemes, args, learn_idx, all_phonemes, all_phoneme_counts,
                   word_idx, blank_id, blank_word_id, word_phoneme_ids, result, error,
                   log, calls>>
    /\ UNCHANGED main_vars

NextMain ==
    \/ NextLoad
    \/ MainSetup \/ MainReadLine \/ LearnWord \/ MainLearned \/ MainAssign
    \/ MainEncodeLine \/ Begin \/ Word \/ End \/ MainPrint

-----------------------------------------------------------------------------
(* Inputs *)

\* Bounds of the model
MaxWords == 2
MaxNormWords == 1
MaxConfigWords == 2
MaxCallWords == 2
MaxLearnWords == 1

\* The sequences of at most n elements of S
SeqsUpTo(S, n) == UNION {[1..k -> S] : k \in 0..n}

Sym(c) == <<c>>
EMPTY == <<>>

\* The table of the encoder runs: every symbol of their words, the marks, and
\* an id 0 (as "_" has in test_missing_func); and the same without "x".
TableFull ==
    (Sym("a") :> 0) @@ (Sym("b") :> 1) @@ (Sym("x") :> 2) @@ (Sym("#") :> 3)
    @@ (Sym("|") :> 4) @@ (Sym("^") :> 5) @@ (Sym("$") :> 6)
TableNoX == [p \in DOMAIN TableFull \ {Sym("x")} |-> TableFull[p]]

EncodeWords ==
    { <<>>, <<Sym("a")>>, <<Sym("b"), Sym("a")>>, <<Sym("x")>>,
      <<Sym("a"), EMPTY, Sym("b")>>, <<Sym("x"), Sym("b")>> }

MissingFuncs ==
    { [table |-> <<>>, default |-> None],
      [table |-> <<>>, default |-> Some(<<>>)],
      [table |-> <<>>, default |-> Some(<<0>>)],
      [table |-> (Sym("x") :> Some(<<7, 8>>)), default |-> None] }

DefaultArgs ==
    [phoneme_to_id |-> TableFull, bos |-> None, eos |-> None, blank |-> None,
     blank_word |-> None, blank_between |-> "words", blank_at_start |-> TRUE,
     blank_at_end |-> TRUE, simple_punctuation |-> FALSE, punctuation_map |-> None,
     separate |-> None, separate_graphemes |-> FALSE, separate_tones |-> FALSE,
     tone_before |-> FALSE, phoneme_map |-> None, missing_func |-> None,
     fail_on_missing |-> FALSE]

\* Blank placement, bos and eos
BlankArgs ==
    { [DefaultArgs EXCEPT !.phoneme_to_id = t, !.blank = b, !.blank_word = bw,
                          !.blank_between = bb, !.blank_at_start = s,
                          !.blank_at_end = e, !.bos = m[1], !.eos = m[2]] :
        t \in {TableFull, TableNoX},
        b \in {None, Some(Sym("#"))},
        bw \in {None, Some(Sym("|"))},
        bb \in {"tokens", "words", "tokens_and_words"},
        s \in BOOLEAN, e \in BOOLEAN,
        m \in {<<None, None>>, <<Some(Sym("^")), Some(Sym("$"))>>} }

\* Resolution of symbols: missing symbols, missing_func, fail_on_missing
ResolveArgs ==
    { [DefaultArgs EXCEPT !.phoneme_to_id = t, !.missing_func = mf,
                          !.fail_on_missing = f, !.bos = m[1], !.eos = m[2]] :
        t \in {TableFull, TableNoX},
        mf \in {None} \cup {Some(g) : g \in MissingFuncs},
        f \in BOOLEAN,
        m \in {<<None, None>>, <<Some(Sym("^")), Some(Sym("$"))>>,
               <<Some(Sym("x")), Some(Sym("x"))>>} }

\* Runs of the two functions alone: no command line, no files
NoMain ==
    /\ cli = None
    /\ phonemes_file = None
    /\ phoneme_map_file = None
    /\ file_line = 0
    /\ main = None
    /\ reader = <<>>

InitRun ==
    /\ pc = "learn"
    /\ learn_idx = 0
    /\ all_phonemes = {}
    /\ all_phoneme_counts = <<>>
    /\ word_idx = 0
    /\ blank_id = None
    /\ blank_word_id = None
    /\ word_phoneme_ids = <<>>
    /\ result = None
    /\ error = None
    /\ log = <<>>
    /\ calls = <<>>
    /\ call_idx = 0
    /\ outputs = <<>>
    /\ NoMain

Init ==
    /\ word_phonemes \in SeqsUpTo(EncodeWords, MaxWords)
    /\ args \in BlankArgs \cup ResolveArgs
    /\ InitRun

Spec == Init /\ [][Next]_vars

\* Normalization and mapping: tones, separators, punctuation, graphemes, maps
TableNorm ==
    (Sym("a") :> 1) @@ (Sym("b") :> 2) @@ (Sym("1") :> 3) @@ (<<"1", "2">> :> 4)
    @@ (Sym(",") :> 5) @@ (Sym(";") :> 6) @@ (Sym("stress1") :> 7) @@ (Sym("~") :> 8)
    @@ (<<"a", "1">> :> 9) @@ (Sym("sup2") :> 10) @@ (Sym("a~") :> 11)
    @@ (<<"a", ";">> :> 12)

NormWords ==
    { <<>>,
      << <<"a", "1">>, <<"b", "1", "2">> >>,
      << <<"1", "2">>, <<"a", "sup2">>, <<"1", "a">> >>,
      << <<"stress1", "a", "1">>, <<"a", "stress2", "b">>, <<"stress1", "stress2">> >>,
      << Sym(";"), Sym(","), <<"a", ";">> >>,
      << <<"a~", "1">>, EMPTY, Sym("a") >>,
      << Sym("b"), Sym("!"), Sym("a") >> }

PunctuationMaps ==
    { None, Some(<<>>), Some((Sym(",") :> Sym("b")) @@ (Sym(";") :> EMPTY)) }

Separates == { None, Some({}), Some(STRESS), Some({"stress1", ";"}) }

PhonemeMaps ==
    { None,
      Some((Sym("a") :> <<Sym("b")>>) @@ (Sym("b") :> <<Sym("a")>>)
           @@ (Sym("1") :> <<Sym("b")>>)),
      Some(Sym(",") :> <<Sym("a"), Sym("b")>>),
      Some(Sym("a") :> <<EMPTY, Sym("b")>>),
      Some(Sym("a") :> <<>>) }

NormArgs ==
    { [DefaultArgs EXCEPT !.phoneme_to_id = TableNorm, !.simple_punctuation = sp,
                          !.punctuation_map = pm, !.separate = sep,
                          !.separate_graphemes = sg, !.separate_tones = t[1],
                          !.tone_before = t[2], !.phoneme_map = m] :
        sp \in BOOLEAN, pm \in PunctuationMaps, sep \in Separates, sg \in BOOLEAN,
        t \in {<<FALSE, FALSE>>, <<TRUE, FALSE>>, <<TRUE, TRUE>>},
        m \in PhonemeMaps }

InitNorm ==
    /\ word_phonemes \in SeqsUpTo(NormWords, MaxNormWords)
    /\ args \in NormArgs
    /\ InitRun

SpecNorm == InitNorm /\ [][Next]_vars

\* Configuration: marks that are or are not keys of the table, an empty blank,
\* and a blank_between that is none of the policies
TableNoMarks == (Sym("a") :> 0) @@ (Sym("b") :> 1) @@ (Sym("x") :> 2)

ConfigWords == { <<>>, <<Sym("a")>>, <<Sym("x"), Sym("b")>> }

ConfigArgs ==
    { [DefaultArgs EXCEPT !.phoneme_to_id = t, !.blank = b, !.blank_word = bw,
                          !.blank_between = bb, !.blank_at_start = s,
                          !.bos = m[1], !.eos = m[2], !.missing_func = mf,
                          !.fail_on_missing = f] :
        t \in {TableFull, TableNoMarks},
        b \in {None, Some(Sym("#")), Some(EMPTY)},
        bw \in {None, Some(Sym("|"))},
        bb \in {"tokens", "words", "tokens_and_words", "sentences"},
        s \in BOOLEAN,
        m \in {<<None, None>>, <<Some(Sym("^")), Some(Sym("$"))>>, <<None, Some(Sym("$"))>>},
        mf \in {None, Some([table |-> <<>>, default |-> Some(<<0>>)])},
        f \in BOOLEAN }

InitConfig ==
    /\ word_phonemes \in SeqsUpTo(ConfigWords, MaxConfigWords)
    /\ args \in ConfigArgs
    /\ InitRun

SpecConfig == InitConfig /\ [][Next]_vars

\* Two calls in a row: the second with the arguments of the first, or with
\* one word of its input removed
CallWords == { <<>>, <<EMPTY>>, <<Sym("a")>>, <<Sym("x")>>, <<Sym("x"), Sym("b")>> }

CallArgs ==
    { [DefaultArgs EXCEPT !.phoneme_to_id = t, !.blank = b, !.blank_word = bw,
                          !.blank_between = bb, !.blank_at_end = e,
                          !.bos = m[1], !.eos = m[2], !.fail_on_missing = f] :
        t \in {TableFull, TableNoX},
        b \in {None, Some(Sym("#"))},
        bw \in {None, Some(Sym("|"))},
        bb \in {"tokens", "words", "tokens_and_words"},
        e \in BOOLEAN,
        m \in {<<None, None>>, <<Some(Sym("^")), Some(Sym("$"))>>},
        f \in BOOLEAN }

\* The word list without its k-th word
Remove(words, k) == SubSeq(words, 1, k - 1) \o SubSeq(words, k + 1, Len(words))

CallPairs ==
    { << [word_phonemes |-> w[1], args |-> a], [word_phonemes |-> w[2], args |-> a] >> :
        a \in CallArgs,
        w \in UNION { {<<v, v>>} \cup {<<v, Remove(v, k)>> : k \in 1..Len(v)} :
                        v \in SeqsUpTo(CallWords, MaxCallWords) } }

InitCalls ==
    /\ calls \in CallPairs
    /\ call_idx = 0
    /\ outputs = <<>>
    /\ pc = "call"
    /\ word_phonemes = <<>>
    /\ args = DefaultArgs
    /\ learn_idx = 0
    /\ all_phonemes = {}
    /\ all_phoneme_counts = <<>>
    /\ word_idx = 0
    /\ blank_id = None
    /\ blank_word_id = None
    /\ word_phoneme_ids = <<>>
    /\ result = None
    /\ error = None
    /\ log = <<>>
    /\ NoMain

SpecCalls == InitCalls /\ [][NextCalls]_vars

\* Two calls of learn_phoneme_ids in a row, with the same options, on the
\* same set and Counter
LearnWords ==
    { << <<"a", "1">>, <<"b", "1", "2">> >>,
      << <<"stress1", "a", "1">>, <<"a", "stress2", "b">> >>,
      << Sym(";"), Sym(","), <<"a", ";">> >>,
      << <<"a~", "1">>, EMPTY, Sym("a") >> }

LearnArgs ==
    { [DefaultArgs EXCEPT !.simple_punctuation = sp, !.punctuation_map = pm,
                          !.separate = sep, !.separate_graphemes = sg,
                          !.separate_tones = t, !.phoneme_map = m] :
        sp \in BOOLEAN,
        pm \in {None, Some((Sym(",") :> Sym("b")) @@ (Sym(";") :> EMPTY))},
        sep \in {None, Some(STRESS)},
        sg \in BOOLEAN,
        t \in BOOLEAN,
        m \in {None,
               Some((Sym("a") :> <<Sym("b")>>) @@ (Sym("b") :> <<Sym("a")>>)),
               Some(Sym("a") :> <<EMPTY, Sym("b")>>)} }

LearnPairs ==
    { << [word_phonemes |-> v, args |-> a], [word_phonemes |-> w, args |-> a] >> :
        a \in LearnArgs,
        v \in SeqsUpTo(LearnWords, MaxLearnWords),
        w \in SeqsUpTo(LearnWords, MaxLearnWords) }

InitLearn ==
    /\ calls \in LearnPairs
    /\ call_idx = 0
    /\ outputs = <<>>
    /\ pc = "call"
    /\ word_phonemes = <<>>
    /\ args = DefaultArgs
    /\ learn_idx = 0
    /\ all_phonemes = {}
    /\ all_phoneme_counts = <<>>
    /\ word_idx = 0
    /\ blank_id = None
    /\ blank_word_id = None
    /\ word_phoneme_ids = <<>>
    /\ result = None
    /\ error = None
    /\ log = <<>>
    /\ NoMain

SpecLearn == InitLearn /\ [][NextLearn]_vars

-----------------------------------------------------------------------------
(* What the claims speak of *)

Terminated == pc \in {"done", "failed"}

\* No normalization or mapping option is enabled
NoNormalization ==
    /\ ~args.simple_punctuation
    /\ ~is_separate_given
    /\ ~args.separate_graphemes
    /\ ~args.separate_tones
    /\ DOMAIN phoneme_map = {}

NoBlankBosEos ==
    /\ ~truthy(args.blank) /\ ~truthy(args.blank_word)
    /\ ~truthy(args.bos) /\ ~truthy(args.eos)

\* The tokens of the input, in word order and then token order
InputTokens == chain_from_iterable(word_phonemes)

NonEmpty(tokens) == SelectSeq(tokens, LAMBDA t : t # <<>>)

\* The table ids of the tokens that are keys of the table, in order
TableIds(tokens) ==
    LET known == SelectSeq(tokens, LAMBDA t : t \in DOMAIN args.phoneme_to_id)
    IN  [i \in 1..Len(known) |-> args.phoneme_to_id[known[i]]]

\* The history entries of a place ("bos", "word", "eos"), and their symbols
LogAt(at) == SelectSeq(log, LAMBDA e : e.at = at)
Phonemes(entries) == [i \in 1..Len(entries) |-> entries[i].phoneme]

-----------------------------------------------------------------------------
(* C1 *)

C1_Pre ==
    /\ NoNormalization
    /\ NoBlankBosEos
    /\ \A i \in 1..Len(InputTokens) :
          InputTokens[i] = <<>> \/ InputTokens[i] \in DOMAIN args.phoneme_to_id

\* C1: when every token is a key of phoneme_to_id and there is no blank, bos,
\* eos, normalization or mapping, phonemes2ids returns exactly the table ids of
\* the tokens, in word order and then token order; empty tokens add nothing.
C1_BasicConcatenation ==
    (C1_Pre /\ Terminated) => result = Some(TableIds(NonEmpty(InputTokens)))

C1_Witness ==
    /\ C1_Pre
    /\ pc = "done"
    /\ word_phonemes = << <<Sym("b"), Sym("a")>>, <<Sym("a"), EMPTY, Sym("b")>> >>
    /\ result = Some(<<1, 0, 0, 1>>)

-----------------------------------------------------------------------------
(* C2, C3 *)

\* The plain runs of the blank claims: no bos or eos, no word blank of its own,
\* missing symbols dropped, and every word resolves to at least one id
BlankPre(policy) ==
    /\ NoNormalization
    /\ truthy(args.blank) /\ args.blank[1] \in DOMAIN args.phoneme_to_id
    /\ ~truthy(args.blank_word) /\ ~truthy(args.bos) /\ ~truthy(args.eos)
    /\ args.missing_func = None /\ ~args.fail_on_missing
    /\ args.blank_between = policy
    /\ \A i \in 1..Len(word_phonemes) : TableIds(word_phonemes[i]) # <<>>

TheBlank == args.phoneme_to_id[args.blank[1]]

StartBlank == IF args.blank_at_start THEN <<TheBlank>> ELSE <<>>

\* Each word's ids followed by one blank, but after the last word only when
\* blank_at_end
ExpectedBetweenWords ==
    StartBlank \o chain_from_iterable(
        [i \in 1..Len(word_phonemes) |->
            TableIds(word_phonemes[i])
            \o (IF i < Len(word_phonemes) \/ args.blank_at_end
                THEN <<TheBlank>> ELSE <<>>)])

\* C2: with a blank and blank_between = words the output is the start blank
\* (iff blank_at_start), then each word's ids followed by one blank, the blank
\* after the last word being there iff blank_at_end.
C2_BlankBetweenWords ==
    (BlankPre("words") /\ Terminated) => result = Some(ExpectedBetweenWords)

\* Every id followed by one blank; without blank_at_end the last blank dropped
ExpectedBetweenTokens ==
    LET ids == TableIds(InputTokens)
        all == [i \in 1..(2 * Len(ids)) |->
                   IF i % 2 = 1 THEN ids[(i + 1) \div 2] ELSE TheBlank]
    IN  StartBlank \o (IF args.blank_at_end \/ all = <<>> THEN all
                       ELSE SubSeq(all, 1, Len(all) - 1))

\* C3: with a blank and blank_between = tokens the output is the start blank
\* (iff blank_at_start), then every id of every word followed by one blank,
\* the blank after the final id dropped when blank_at_end is false.
C3_BlankBetweenTokens ==
    (BlankPre("tokens") /\ Terminated) => result = Some(ExpectedBetweenTokens)

-----------------------------------------------------------------------------
(* C4, C5 *)

\* What missing_func returns for a symbol, as a list (None: the empty list)
Returned(phoneme) ==
    LET f == args.missing_func[1]
        r == IF phoneme \in DOMAIN f.table THEN f.table[phoneme] ELSE f.default
    IN  IF r = None THEN <<>> ELSE r[1]

Resolved(e) ==
    IF e.phoneme \in DOMAIN args.phoneme_to_id
    THEN e.ids = <<args.phoneme_to_id[e.phoneme]>> /\ ~e.missing_called /\ ~e.raised
    ELSE IF args.missing_func # None
    THEN e.missing_called /\ e.ids = Returned(e.phoneme)
    ELSE ~e.missing_called /\ e.ids = <<>> /\ (~args.fail_on_missing => ~e.raised)

LogIds == chain_from_iterable([i \in 1..Len(log) |-> log[i].ids])

\* C4: a symbol that is a key of phoneme_to_id resolves to exactly its id (0
\* too) without a call of missing_func; another symbol resolves to all the ids
\* missing_func returns for it, at its position; without missing_func and in
\* non-strict mode it adds no ids and the symbols after it are still resolved.
C4_SymbolResolution ==
    /\ \A i \in 1..Len(log) : Resolved(log[i])
    /\ (pc = "done" /\ ~truthy(args.blank) /\ ~truthy(args.blank_word))
          => result = Some(LogIds)
    /\ (pc = "done" /\ NoNormalization)
          => Phonemes(LogAt("word")) = NonEmpty(InputTokens)

C4_Witness ==
    /\ pc = "done"
    /\ args.missing_func # None
    /\ word_phonemes = << <<Sym("x"), Sym("b")>>, <<Sym("a")>> >>
    /\ result = Some(<<7, 8, 1, 0>>)

Unresolvable(e) ==
    /\ e.phoneme \notin DOMAIN args.phoneme_to_id
    /\ (args.missing_func = None \/ Returned(e.phoneme) = <<>>)

\* C5: under fail_on_missing, resolving a symbol that is not in phoneme_to_id
\* and for which missing_func is absent or returns nothing ends the call with
\* the missing-phoneme error (the code raises ValueError) naming that symbol,
\* and no list is returned; without fail_on_missing the symbol is dropped and
\* no such error is raised.
C5_FailOnMissing ==
    /\ \A i \in 1..Len(log) :
          (Unresolvable(log[i]) /\ args.fail_on_missing)
             => /\ pc = "failed"
                /\ error = Error("ValueError", log[i].phoneme)
                /\ result = None
                /\ i = Len(log)
    /\ ~args.fail_on_missing
          => /\ \A i \in 1..Len(log) : ~log[i].raised /\ (Unresolvable(log[i]) => log[i].ids = <<>>)
             /\ (error = None \/ error[1].type # "ValueError")

C5_Witness ==
    /\ pc = "failed"
    /\ args.fail_on_missing
    /\ args.missing_func # None
    /\ error = Error("ValueError", Sym("x"))
    /\ word_phonemes = << <<Sym("a")>>, <<Sym("x"), Sym("b")>> >>

-----------------------------------------------------------------------------
(* C6 *)

\* C6: the set of symbols phonemes2ids resolves for the words equals the set
\* learn_phoneme_ids adds to an initially empty all_phonemes, under the same
\* normalization and mapping options.
C6_VocabularyAgreement ==
    pc = "done" =>
        LET resolved == Phonemes(LogAt("word"))
        IN  {resolved[i] : i \in 1..Len(resolved)} = all_phonemes

-----------------------------------------------------------------------------
(* C7 *)

C7_Pre ==
    /\ truthy(args.bos) /\ args.bos[1] \in DOMAIN args.phoneme_to_id
    /\ truthy(args.eos) /\ args.eos[1] \in DOMAIN args.phoneme_to_id
    /\ ~args.fail_on_missing

\* C7: a resolved bos is the first element of the output, before the start
\* blank; a resolved eos is the last element, after the last word's ids and
\* any trailing blank; this under every blank policy.
C7_BosEosOutsideBlanks ==
    (C7_Pre /\ Terminated) =>
        /\ result # None
        /\ LET out == result[1] IN
            /\ out[1] = args.phoneme_to_id[args.bos[1]]
            /\ out[Len(out)] = args.phoneme_to_id[args.eos[1]]
            /\ (truthy(args.blank) /\ args.blank_at_start) => out[2] = TheBlank
            /\ (~truthy(args.blank) /\ ~truthy(args.blank_word) /\ args.missing_func = None)
                  => out = <<args.phoneme_to_id[args.bos[1]]>> \o TableIds(InputTokens)
                           \o <<args.phoneme_to_id[args.eos[1]]>>

-----------------------------------------------------------------------------
(* C8 *)

\* The length of the maximal run of trailing characters of tok that IsD accepts
TrailingRun(tok, IsD(_)) ==
    CHOOSE k \in 0..Len(tok) :
        /\ \A i \in (Len(tok) - k + 1)..Len(tok) : IsD(tok[i])
        /\ k < Len(tok) => ~IsD(tok[Len(tok) - k])

\* The symbols resolved for a token without a tone
RestSymbols(rest) ==
    Phonemes(resolve_sub_phonemes(get_sub_phonemes(rest), 1, NewSt(<<>>)).log)

\* The symbols of a token: its tone, the trailing run, before or after the
\* symbols of the rest
ToneStream(tok, IsD(_)) ==
    LET k == TrailingRun(tok, IsD)
        rest == SubSeq(tok, 1, Len(tok) - k)
        tone == SubSeq(tok, Len(tok) - k + 1, Len(tok))
    IN  IF k = 0 THEN RestSymbols(tok)
        ELSE IF args.tone_before THEN <<tone>> \o RestSymbols(rest)
        ELSE RestSymbols(rest) \o <<tone>>

IsDecimal(c) == c \in DecimalDigits

C8_Pre == args.separate_tones /\ ~args.separate_graphemes /\ pc = "done"

\* C8 as stated: the tone is the maximal run of trailing decimal digits.
C8_ToneIsDecimalRun ==
    C8_Pre => Phonemes(LogAt("word")) =
        chain_from_iterable([i \in 1..Len(InputTokens) |->
                                ToneStream(InputTokens[i], IsDecimal)])

\* C8, amended: with separate_tones and without separate_graphemes, the maximal
\* run of trailing characters that str.isdigit accepts (decimal digits, and
\* digit characters that are not decimal, such as a superscript two) is removed
\* from the token and resolved as one tone symbol, its characters in the
\* order of the input, after the symbols of the rest of the token, or before
\* them under tone_before; a token without such a run has no tone.
C8_ToneIsDigitRun ==
    C8_Pre => Phonemes(LogAt("word")) =
        chain_from_iterable([i \in 1..Len(InputTokens) |->
                                ToneStream(InputTokens[i], isdigit)])

C8_Witness ==
    /\ C8_Pre
    /\ args.tone_before
    /\ ~is_separate_given /\ ~args.simple_punctuation /\ args.phoneme_map = None
    /\ word_phonemes = << << <<"a", "1">>, <<"b", "1", "2">> >> >>
    /\ Phonemes(LogAt("word")) = << Sym("1"), Sym("a"), <<"1", "2">>, Sym("b") >>
    /\ result = Some(<<3, 1, 4, 2>>)

-----------------------------------------------------------------------------
(* C9 *)

\* The tokens the splitting is looked at for: the tokens of the input, and
\* what tone stripping leaves of them
SplitInputs ==
    {InputTokens[i] : i \in 1..Len(InputTokens)}
    \cup {strip_tone(InputTokens[i], <<>>).phoneme : i \in 1..Len(InputTokens)}

HasSeparator(sub) == \E j \in 1..Len(sub) : sub[j] \in args.separate[1]

SplitRight(token, subs) ==
    /\ \A i \in 1..Len(subs) : subs[i] # <<>>
    /\ chain_from_iterable(subs) = token
    /\ \A i \in 1..Len(subs) : HasSeparator(subs[i]) => Len(subs[i]) = 1
    /\ \A i \in 1..(Len(subs) - 1) : HasSeparator(subs[i]) \/ HasSeparator(subs[i + 1])

\* C9: with a non-empty separator set the sub-symbols of a token are non-empty,
\* concatenate to the token, hold each separator character by itself, and are
\* otherwise maximal runs of other characters; with an empty or unset
\* separator set the token is its one sub-symbol (in both functions).
C9_SeparatorSplitting ==
    \A token \in SplitInputs :
        IF is_separate_given
        THEN /\ SplitRight(token, get_sub_phonemes(token))
             /\ SplitRight(token, learn_get_sub_phonemes(token))
        ELSE /\ get_sub_phonemes(token) = <<token>>
             /\ learn_get_sub_phonemes(token) = <<token>>

C9_Witness ==
    /\ pc = "done"
    /\ args.separate = Some(STRESS)
    /\ ~args.separate_tones /\ ~args.separate_graphemes /\ ~args.simple_punctuation
    /\ args.phoneme_map = None
    /\ word_phonemes = << << <<"stress1", "a", "1">>, <<"a", "stress2", "b">>,
                             <<"stress1", "stress2">> >> >>
    /\ Phonemes(LogAt("word")) =
          << Sym("stress1"), <<"a", "1">>, Sym("a"), Sym("stress2"), Sym("b"),
             Sym("stress1"), Sym("stress2") >>
    /\ all_phonemes = {Sym("stress1"), <<"a", "1">>, Sym("a"), Sym("stress2"), Sym("b")}

-----------------------------------------------------------------------------
(* C10 *)

\* The default simplification the claim names
DefaultSimplified(sub) ==
    IF sub \in {Sym(";"), Sym(":")} THEN Sym(",")
    ELSE IF sub \in {Sym("?"), Sym("!")} THEN Sym(".")
    ELSE sub

Simplified(sub) ==
    IF ~args.simple_punctuation THEN sub
    ELSE IF args.punctuation_map = None THEN DefaultSimplified(sub)
    ELSE IF sub \in DOMAIN args.punctuation_map[1] THEN args.punctuation_map[1][sub]
    ELSE sub

PunctuationInputs ==
    {InputTokens[i] : i \in 1..Len(InputTokens)}
    \cup {Sym(";"), Sym(":"), Sym("?"), Sym("!"), Sym(","), Sym(".")}

\* Only punctuation simplification may be enabled
PunctuationOnly ==
    /\ ~is_separate_given /\ ~args.separate_graphemes /\ ~args.separate_tones
    /\ DOMAIN phoneme_map = {}

SimplifiedTokens ==
    LET tokens == NonEmpty(InputTokens)
    IN  [i \in 1..Len(tokens) |-> Simplified(tokens[i])]

\* C10: under simple_punctuation a sub-symbol that is a key of the punctuation
\* map (by default ; : to , and ? ! to .) is replaced by its value before it
\* is resolved or counted and any other is unchanged; without
\* simple_punctuation nothing is replaced, whatever punctuation_map is.
C10_PunctuationSimplification ==
    /\ \A sub \in PunctuationInputs :
          /\ simplify_punctuation(sub) = Simplified(sub)
          /\ learn_simplify_punctuation(sub) = Simplified(sub)
    /\ (pc = "done" /\ PunctuationOnly) =>
          /\ Phonemes(LogAt("word")) = NonEmpty(SimplifiedTokens)
          /\ all_phonemes = {SimplifiedTokens[i] : i \in 1..Len(SimplifiedTokens)}
          /\ \A p \in all_phonemes :
                all_phoneme_counts[p] =
                    Cardinality({i \in 1..Len(SimplifiedTokens) : SimplifiedTokens[i] = p})

C10_Witness ==
    /\ pc = "done"
    /\ PunctuationOnly
    /\ args.simple_punctuation /\ args.punctuation_map = None
    /\ word_phonemes = << << Sym(";"), Sym(","), <<"a", ";">> >> >>
    /\ Phonemes(LogAt("word")) = << Sym(","), Sym(","), <<"a", ";">> >>
    /\ result = Some(<<5, 5, 12>>)
    /\ all_phoneme_counts[Sym(",")] = 2

-----------------------------------------------------------------------------
(* C11 *)

\* The tokens of a word, and of the input, after the grapheme step
WordTokens(word) ==
    IF args.separate_graphemes THEN separate_graphemes_word(word) ELSE word

NormTokensOf(words) ==
    chain_from_iterable([i \in 1..Len(words) |-> WordTokens(words[i])])

\* The tone of a token, and its sub-symbols after normalization (tone removed,
\* split at separators, empty ones dropped, punctuation simplified)
Tone(tok) ==
    IF args.separate_tones THEN reversed(strip_tone(tok, <<>>).tone_chars) ELSE <<>>

SubSymbols(tok) ==
    LET rest == IF args.separate_tones THEN strip_tone(tok, <<>>).phoneme ELSE tok
        subs == NonEmpty(get_sub_phonemes(rest))
    IN  [i \in 1..Len(subs) |-> simplify_punctuation(subs[i])]

\* The Mapper as the claim states it: the mapped sequence of a key, the symbol
\* itself otherwise
MapOnce(sub) == IF sub \in DOMAIN phoneme_map THEN phoneme_map[sub] ELSE <<sub>>

\* The Mapper, amended: a key mapped to the empty sequence counts as no key
MapOnceNonEmpty(sub) ==
    IF sub \in DOMAIN phoneme_map /\ phoneme_map[sub] # <<>>
    THEN phoneme_map[sub] ELSE <<sub>>

MappedToken(tok, Map(_)) ==
    LET subs == SubSymbols(tok)
        mapped == chain_from_iterable([i \in 1..Len(subs) |-> Map(subs[i])])
    IN  IF Tone(tok) = <<>> THEN mapped
        ELSE IF args.tone_before THEN <<Tone(tok)>> \o mapped
        ELSE mapped \o <<Tone(tok)>>

\* The normalized-and-mapped symbol stream of an input under a Mapper
MappedStreamOf(words, Map(_)) ==
    LET tokens == NormTokensOf(words)
    IN  chain_from_iterable([i \in 1..Len(tokens) |-> MappedToken(tokens[i], Map)])

MappedStream(Map(_)) == MappedStreamOf(word_phonemes, Map)

Occurrences(p, s) == Cardinality({i \in 1..Len(s) : s[i] = p})

\* The symbols phonemes2ids resolves are those of the stream, in order, and
\* learn_phoneme_ids holds and counts every non-empty symbol as often as the
\* stream has it
AgreesWithStream(stream) ==
    /\ Phonemes(LogAt("word")) = NonEmpty(stream)
    /\ \A p \in (all_phonemes \cup {stream[i] : i \in 1..Len(stream)}) \ {EMPTY} :
          /\ p \in all_phonemes
          /\ p \in DOMAIN all_phoneme_counts
          /\ all_phoneme_counts[p] = Occurrences(p, stream)

\* C11 as stated: a sub-symbol that is a key of phoneme_map is replaced by the
\* entries of its sequence, in order, and is not itself resolved or counted;
\* any other sub-symbol is resolved and counted unchanged; an entry that is
\* itself a key is not mapped again.
C11_MapperOnEveryKey == pc = "done" => AgreesWithStream(MappedStream(MapOnce))

\* C11, amended: a sub-symbol that phoneme_map maps to a non-empty sequence is
\* replaced by the entries of that sequence, in order, and is not itself
\* resolved or counted; any other sub-symbol, one that phoneme_map maps to the
\* empty sequence included, is resolved and counted unchanged; an entry that
\* is itself a key is not mapped again.
C11_MapperAppliedOnce == pc = "done" => AgreesWithStream(MappedStream(MapOnceNonEmpty))

C11_Witness ==
    /\ pc = "done"
    /\ args.phoneme_map = Some((Sym("a") :> <<Sym("b")>>) @@ (Sym("b") :> <<Sym("a")>>)
                                @@ (Sym("1") :> <<Sym("b")>>))
    /\ args.separate_tones /\ ~args.tone_before /\ ~args.separate_graphemes
    /\ ~is_separate_given /\ ~args.simple_punctuation
    /\ word_phonemes = << << <<"a", "1">>, <<"b", "1", "2">> >> >>
    /\ Phonemes(LogAt("word")) = << Sym("b"), Sym("1"), Sym("a"), <<"1", "2">> >>
    /\ result = Some(<<2, 3, 1, 4>>)
    /\ all_phoneme_counts = (Sym("b") :> 1) @@ (Sym("1") :> 1) @@ (Sym("a") :> 1)
                             @@ (<<"1", "2">> :> 1)

-----------------------------------------------------------------------------
(* C12 *)

\* Both blanks may be configured; missing symbols are dropped
C12_Pre ==
    /\ NoNormalization
    /\ truthy(args.blank) /\ args.blank[1] \in DOMAIN args.phoneme_to_id
    /\ truthy(args.blank_word) => args.blank_word[1] \in DOMAIN args.phoneme_to_id
    /\ ~truthy(args.bos) /\ ~truthy(args.eos)
    /\ args.missing_func = None /\ ~args.fail_on_missing
    /\ args.blank_between = "tokens_and_words"

\* The word-blank id: that of blank_word when configured, of blank otherwise
TheWordBlank ==
    IF truthy(args.blank_word) THEN args.phoneme_to_id[args.blank_word[1]] ELSE TheBlank

\* What word i adds: its ids, the word blank (unless it is the last word and
\* blank_at_end is false), the token blank after every element of these, and
\* the tokens policy's drop of the final blank of the whole output
ExpectedTokensAndWordsOf(i) ==
    LET ids == TableIds(word_phonemes[i])
        last == i = Len(word_phonemes)
        with_word_blank == IF ~last \/ args.blank_at_end
                           THEN Append(ids, TheWordBlank) ELSE ids
        all == [k \in 1..(2 * Len(with_word_blank)) |->
                   IF k % 2 = 1 THEN with_word_blank[(k + 1) \div 2] ELSE TheBlank]
    IN  IF ids = <<>> THEN <<>>
        ELSE IF last /\ ~args.blank_at_end THEN SubSeq(all, 1, Len(all) - 1)
        ELSE all

\* C12: with blank_between = tokens_and_words, each word that resolves to ids
\* first gets the word-blank id (of blank_word when configured, of blank
\* otherwise) appended, unless it is the last word and blank_at_end is false,
\* and then the token-blank id inserted after every element of the result, the
\* word blank included; the two blank ids may differ.
C12_BlankBetweenTokensAndWords ==
    (C12_Pre /\ Terminated) =>
        result = Some(StartBlank \o chain_from_iterable(
                        [i \in 1..Len(word_phonemes) |-> ExpectedTokensAndWordsOf(i)]))

-----------------------------------------------------------------------------
(* C13 *)

\* "configured": given and not empty (lines 91, 95, 131, 248)
MissingMark(mark) == truthy(mark) /\ mark[1] \notin DOMAIN args.phoneme_to_id

Policies == {"tokens", "words", "tokens_and_words"}

\* The call ended with an exception before any symbol was resolved
FailedAtOnce == pc = "failed" /\ result = None /\ log = <<>> /\ word_phoneme_ids = <<>>

\* C13 as stated: the call fails, with no ids, when blank_between is
\* not a policy or a configured bos, eos, blank or blank_word is not a key of
\* phoneme_to_id (whatever the class of the error is called).
C13_InvalidConfigurationFails ==
    (Terminated /\ (\/ args.blank_between \notin Policies
                    \/ MissingMark(args.bos) \/ MissingMark(args.eos)
                    \/ MissingMark(args.blank) \/ MissingMark(args.blank_word)))
        => (pc = "failed" /\ result = None)

\* C13, amended: the call fails at once with a KeyError naming the symbol, and
\* returns no ids, whenever a configured blank or blank_word is not a key of
\* phoneme_to_id.  A configured bos or eos that is not a key is resolved as
\* any missing symbol is (missing_func, else dropped, else the error of
\* fail_on_missing), and blank_between is not validated: with blank and
\* blank_word in the table nothing but the resolution of bos fails before the
\* first word.
C13_MissingBlankFails ==
    /\ (pc \notin {"learn", "begin"} /\ MissingMark(args.blank))
          => FailedAtOnce /\ error = Error("KeyError", args.blank[1])
    /\ (pc \notin {"learn", "begin"} /\ ~MissingMark(args.blank)
                                      /\ MissingMark(args.blank_word))
          => FailedAtOnce /\ error = Error("KeyError", args.blank_word[1])
    /\ (~MissingMark(args.blank) /\ ~MissingMark(args.blank_word))
          => /\ \A i \in 1..Len(log) : Resolved(log[i])
             /\ (pc = "failed" /\ LogAt("word") = <<>> /\ LogAt("eos") = <<>>)
                   => /\ args.fail_on_missing
                      /\ MissingMark(args.bos)
                      /\ error = Error("ValueError", args.bos[1])
             /\ (pc \notin {"learn", "begin"} /\ MissingMark(args.bos))
                   => Phonemes(LogAt("bos")) = <<args.bos[1]>>
             /\ (pc = "done" /\ MissingMark(args.eos))
                   => Phonemes(LogAt("eos")) = <<args.eos[1]>>

C13_Witness ==
    /\ FailedAtOnce
    /\ args.phoneme_to_id = TableNoMarks
    /\ args.blank = Some(Sym("#")) /\ args.blank_word = Some(Sym("|"))
    /\ args.bos = Some(Sym("^"))
    /\ error = Error("KeyError", Sym("#"))
    /\ word_phonemes = << <<Sym("a")>> >>

-----------------------------------------------------------------------------
(* C20 *)

\* C20: the empty symbol is dropped at every stage: phonemes2ids never looks
\* it up, never hands it to missing_func and never raises for it, and
\* learn_phoneme_ids never adds it to all_phonemes nor counts it, whatever the
\* tokens (empty ones, digits only under separate_tones) and whatever
\* phoneme_map (sequences with an empty string included).
C20_EmptySymbolDropped ==
    /\ \A i \in 1..Len(log) : log[i].phoneme # EMPTY
    /\ (error # None => error[1].arg # EMPTY)
    /\ EMPTY \notin all_phonemes
    /\ EMPTY \notin DOMAIN all_phoneme_counts

-----------------------------------------------------------------------------
(* C18 *)

\* The ids resolved for the symbols of the words, in order
WordLogIds ==
    LET entries == LogAt("word")
    IN  chain_from_iterable([i \in 1..Len(entries) |-> entries[i].ids])

C18_Pre ==
    /\ truthy(args.blank) /\ args.blank[1] \in DOMAIN args.phoneme_to_id
    /\ truthy(args.blank_word) => args.blank_word[1] \in DOMAIN args.phoneme_to_id
    /\ args.blank_between \in Policies
    /\ ~args.blank_at_end
    /\ ~truthy(args.eos)
    /\ ~args.fail_on_missing

\* C18: with blank_at_end false and no eos, under each of the policies words,
\* tokens and tokens_and_words and for every input (also one whose last words
\* resolve to no ids), an output with ids of the words ends with the last
\* resolved id and not with a blank.
C18_NoBlankAfterLast ==
    (C18_Pre /\ Terminated /\ WordLogIds # <<>>) =>
        /\ result # None
        /\ result[1] # <<>>
        /\ result[1][Len(result[1])] = WordLogIds[Len(WordLogIds)]

-----------------------------------------------------------------------------
(* C16 *)

-----------------------------------------------------------------------------
(* C19 *)

\* The word resolves to no ids (no token, empty tokens, dropped symbols)
ZeroIds(word) ==
    LET st == resolve_word(WordTokens(word), 1, NewSt(<<>>))
    IN  st.err = None /\ st.target = <<>>

\* C19: a word that resolves to zero ids and is not the last word adds
\* nothing and triggers no blank: under every blank policy the call returns
\* what it returns for the input without that word.
C19_ZeroIdWordAddsNothing ==
    \A i, j \in 1..Len(outputs) :
        \A k \in 1..(Len(calls[i].word_phonemes) - 1) :
            (/\ args = calls[i].args /\ args = calls[j].args
             /\ ~args.fail_on_missing
             /\ ZeroIds(calls[i].word_phonemes[k])
             /\ calls[j].word_phonemes = Remove(calls[i].word_phonemes, k))
               => /\ outputs[i].result # None
                  /\ outputs[i].result = outputs[j].result

\* The loaders alone: a table file or a map file of up to MaxFileLines lines
IdLines ==
    { <<"0", " ", "a", "LF">>, <<"1", " ", "b", "LF">>, <<"1", "0", " ", "a", "CR", "LF">>,
      <<"2", " ", "a", " ", "b">>, <<"#", " ", "a", "LF">>, <<"#", "1", " ", "b", "LF">>,
      <<"LF">>, <<"CR", "LF">>, <<"1", "a", "LF">>, <<"1", " ", " ", "LF">>,
      <<"x", " ", "a", "LF">>, <<" ", "a", "LF">> }

MapLines ==
    { <<"a", " ", "b", "LF">>, <<"a", " ", "b", " ", " ", "a", "CR", "LF">>,
      <<"b", " ", "TAB", "LF">>, <<"b", " ">>, <<"#", "a", " ", "b", "LF">>,
      <<"LF">>, <<"a", "TAB", "b", "LF">>, <<" ", "b", "LF">>,
      <<"a", " ", "TAB", "b", "LF">> }

MaxFileLines == 2

\* Files of lines: only the last line of a file can lack its line break
Files(Lines) ==
    { f \in SeqsUpTo(Lines, MaxFileLines) :
        \A i \in 1..(Len(f) - 1) : f[i][Len(f[i])] = "LF" }

NoCommandLine ==
    [pad |-> None, bos |-> None, eos |-> None, blank |-> None, blank_between |-> "words",
     no_blank_start |-> FALSE, no_blank_end |-> FALSE, simple_punctuation |-> FALSE,
     separate_stress |-> FALSE, separate |-> None, separate_graphemes |-> FALSE,
     separate_tones |-> FALSE, tone_before |-> FALSE]

\* main's locals as lines 144, 159, 183 and 215 make them
MainLocals == [phoneme_to_id |-> <<>>, phoneme_map |-> <<>>, separate |-> {}, lines |-> <<>>]

InitLoaders ==
    /\ pc = "load_phoneme_map"
    /\ file_line = 0
    /\ main = MainLocals
    /\ word_phonemes = <<>>
    /\ args = DefaultArgs
    /\ learn_idx = 0
    /\ all_phonemes = {}
    /\ all_phoneme_counts = <<>>
    /\ word_idx = 0
    /\ blank_id = None
    /\ blank_word_id = None
    /\ word_phoneme_ids = <<>>
    /\ result = None
    /\ error = None
    /\ log = <<>>
    /\ calls = <<>>
    /\ call_idx = 0
    /\ outputs = <<>>

InitLoad ==
    /\ \/ /\ phonemes_file \in {Some(f) : f \in Files(IdLines)}
          /\ phoneme_map_file = None
       \/ /\ phonemes_file = None
          /\ phoneme_map_file \in {Some(f) : f \in Files(MapLines)}
    /\ cli = Some(NoCommandLine)
    /\ reader = <<>>
    /\ InitLoaders

SpecLoad == InitLoad /\ [][NextLoad]_vars

\* The command line program: a command line, the two files, and the input
CommandLines ==
    { NoCommandLine,
      [NoCommandLine EXCEPT !.pad = Some(<<"_">>)],
      [NoCommandLine EXCEPT !.pad = Some(<<"_">>), !.bos = Some(<<"^">>),
                            !.eos = Some(<<"$">>), !.blank = Some(<<"#">>)],
      [NoCommandLine EXCEPT !.separate_stress = TRUE],
      [NoCommandLine EXCEPT !.simple_punctuation = TRUE, !.eos = Some(<<"a">>)],
      [NoCommandLine EXCEPT !.bos = Some(<<"^">>), !.separate_tones = TRUE,
                            !.tone_before = TRUE, !.separate = Some({"x"})] }

MainIdLines ==
    { <<"0", " ", "a", "LF">>, <<"1", " ", "a", "LF">>, <<"2", " ", "b", "LF">> }

MainMapFiles == {None, Some(<< <<"a", " ", "b", " ", "x", "LF">> >>)}

StdinLines ==
    { <<"a", " ", "b", "LF">>, <<"b", "stress1", "a", "1", ";", "LF">>, <<" ", "LF">> }

MaxStdinLines == 2

InitMain ==
    /\ cli \in {Some(c) : c \in CommandLines}
    /\ phonemes_file \in {None} \cup {Some(f) : f \in Files(MainIdLines)}
    /\ phoneme_map_file \in MainMapFiles
    /\ reader \in SeqsUpTo(StdinLines, MaxStdinLines)
    /\ InitLoaders

SpecMain == InitMain /\ [][NextMain]_vars

-----------------------------------------------------------------------------
(* C14 *)

\* The set and the Counter before the k-th call, and after it
Before(k) ==
    IF k = 1 THEN [all_phonemes |-> {}, all_phoneme_counts |-> <<>>] ELSE outputs[k - 1]

Count(counter, p) == Get(counter, p, 0)

Symbols(stream) == {stream[i] : i \in 1..Len(stream)}

\* C14: learn_phoneme_ids only accumulates: over a sequence of calls on the
\* same set and Counter no symbol leaves the set and no count goes down, and
\* a call raises the count of every symbol by exactly the number of times the
\* symbol occurs in the normalized-and-mapped stream of the call's input (so
\* every symbol counted in the call is in the set).
C14_LearnAccumulates ==
    /\ \A k \in 1..Len(outputs) :
          LET stream == MappedStreamOf(calls[k].word_phonemes, MapOnceNonEmpty)
              before == Before(k)
              after == outputs[k]
          IN  /\ args = calls[k].args
              /\ after.all_phonemes = before.all_phonemes \cup Symbols(stream)
              /\ DOMAIN after.all_phoneme_counts
                    = DOMAIN before.all_phoneme_counts \cup Symbols(stream)
              /\ \A p \in DOMAIN after.all_phoneme_counts :
                    after.all_phoneme_counts[p]
                       = Count(before.all_phoneme_counts, p) + Occurrences(p, stream)
              /\ Symbols(stream) \subseteq after.all_phonemes
    /\ LET last == Before(Len(outputs) + 1)
       IN  /\ last.all_phonemes \subseteq all_phonemes
           /\ \A p \in DOMAIN last.all_phoneme_counts :
                 /\ p \in DOMAIN all_phoneme_counts
                 /\ all_phoneme_counts[p] >= last.all_phoneme_counts[p]

C14_Witness ==
    /\ Len(outputs) = 2
    /\ args.separate_tones /\ ~args.separate_graphemes /\ ~is_separate_given
    /\ ~args.simple_punctuation /\ args.phoneme_map = None
    /\ calls[1].word_phonemes = << << <<"a", "1">>, <<"b", "1", "2">> >> >>
    /\ calls[2].word_phonemes = << << <<"a~", "1">>, EMPTY, Sym("a") >> >>
    /\ outputs[1].all_phoneme_counts =
          (Sym("a") :> 1) @@ (Sym("1") :> 1) @@ (Sym("b") :> 1) @@ (<<"1", "2">> :> 1)
    /\ outputs[2].all_phoneme_counts =
          (Sym("a") :> 2) @@ (Sym("1") :> 2) @@ (Sym("b") :> 1) @@ (<<"1", "2">> :> 1)
          @@ (Sym("a~") :> 1)

-----------------------------------------------------------------------------
(* C17 *)

\* A line without its line break
Text(line) == strip(line, {"CR", "LF"})

\* The lines the claim says are skipped: empty, a comment, or without a space
Skipped(line) ==
    \/ Text(line) = <<>>
    \/ Text(line)[1] = "#"
    \/ \A i \in 1..Len(Text(line)) : Text(line)[i] # " "

\* The lines of a file that are not skipped, in order
Kept(file) == SelectSeq(file, LAMBDA line : ~Skipped(line))

\* What is left and right of the first space of a kept line
LeftOf(line) == split_maxsplit_1(Text(line))[1]
RightOf(line) == split_maxsplit_1(Text(line))[2]

\* The dict a sequence of (key, value) entries makes: a later entry of a key
\* replaces an earlier one
DictOf(file, Key(_), Value(_)) ==
    LET kept == Kept(file)
        Last(k) == CHOOSE i \in 1..Len(kept) :
                       /\ Key(kept[i]) = k
                       /\ \A j \in (i + 1)..Len(kept) : Key(kept[j]) # k
    IN  [k \in {Key(kept[i]) : i \in 1..Len(kept)} |-> Value(kept[Last(k)])]

IdOf(line) == int(LeftOf(line))[1]

ToSymbolsOf(line) ==
    IF \A i \in 1..Len(RightOf(line)) : RightOf(line)[i] \in WHITESPACE
    THEN << <<" ">> >>
    ELSE split(RightOf(line))

\* C17: the loaders never fail, whatever the lines are; the skipped lines
\* leave no trace, and every other line gives its entry: the symbol after the
\* first space with the id before it, or the from-symbol with its to-symbols.
C17_LenientLoading ==
    pc \in {"setup", "failed"} =>
        /\ pc = "setup"
        /\ error = None
        /\ phoneme_map_file # None =>
              main.phoneme_map = DictOf(phoneme_map_file[1], LeftOf, ToSymbolsOf)
        /\ phonemes_file # None =>
              main.phoneme_to_id = DictOf(phonemes_file[1], RightOf, IdOf)

-----------------------------------------------------------------------------
(* C15 *)

\* The table as load_phoneme_ids gave it to main
LoadedTable ==
    IF phonemes_file = None THEN <<>> ELSE DictOf(phonemes_file[1], RightOf, IdOf)

\* C15: when main has given every symbol its id, no two symbols of
\* phoneme_to_id have the same id, and a symbol that was not in the loaded
\* table has an id that is not in the loaded table.
C15_UniqueIds ==
    pc = "encode" =>
        /\ \A p, q \in DOMAIN main.phoneme_to_id :
              p # q => main.phoneme_to_id[p] # main.phoneme_to_id[q]
        /\ \A p \in DOMAIN main.phoneme_to_id \ DOMAIN LoadedTable :
              \A q \in DOMAIN LoadedTable : main.phoneme_to_id[p] # LoadedTable[q]

-----------------------------------------------------------------------------
(* C21 *)

\* Inputs on which the order of two neighbouring steps shows: a token whose
\* digits end up apart once it is decomposed, a digit before a separator, a
\* punctuation key with a separator in it, a punctuation value that is a key
\* of phoneme_map and a punctuation key that is one
OrderWords ==
    { << <<"a", "1">>, <<"b", "1", "2">> >>,
      << <<"a", "1", "stress1">>, <<"a~", "1">> >>,
      << <<"stress1", "a">>, <<"b", "1", "2">>, Sym(",") >>,
      << Sym(";"), Sym(","), <<"a", ";">> >> }

MaxOrderWords == 1

OrderArgs ==
    { [DefaultArgs EXCEPT !.phoneme_to_id = TableNorm, !.simple_punctuation = sp,
                          !.punctuation_map = pm, !.separate = sep,
                          !.separate_graphemes = sg, !.separate_tones = t[1],
                          !.tone_before = t[2], !.phoneme_map = m] :
        sp \in BOOLEAN,
        pm \in {None, Some((<<"stress1", "a">> :> Sym(",")) @@ (Sym(",") :> Sym("b")))},
        sep \in {None, Some(STRESS)},
        sg \in BOOLEAN,
        t \in {<<FALSE, FALSE>>, <<TRUE, FALSE>>, <<TRUE, TRUE>>},
        m \in {None,
               Some((Sym("a") :> <<Sym("b")>>) @@ (Sym("b") :> <<Sym("a")>>)
                    @@ (Sym(";") :> <<Sym("1"), Sym("a")>>))} }

InitOrder ==
    /\ word_phonemes \in SeqsUpTo(OrderWords, MaxOrderWords)
    /\ args \in OrderArgs
    /\ InitRun

SpecOrder == InitOrder /\ [][Next]_vars

\* Step 1, graphemes: with separate_graphemes the tokens of a word are the
\* codepoints of the NFD forms of its phonemes, one token each
Decomposed(word) ==
    LET chars == chain_from_iterable([i \in 1..Len(word) |-> normalize_NFD(word[i])])
    IN  IF args.separate_graphemes THEN [i \in 1..Len(chars) |-> <<chars[i]>>] ELSE word

\* Step 2, tones: the trailing run of digits of a token, and what is before it
ToneLength(tok) == IF args.separate_tones THEN TrailingRun(tok, isdigit) ELSE 0
ToneOf(tok) == SubSeq(tok, Len(tok) - ToneLength(tok) + 1, Len(tok))
BaseOf(tok) == SubSeq(tok, 1, Len(tok) - ToneLength(tok))

RECURSIVE Runs(_)
\* Step 3, separators: every separator character by itself, and the runs of
\* other characters between them
Runs(s) ==
    IF s = <<>> THEN <<>>
    ELSE IF s[1] \in args.separate[1] THEN << <<s[1]>> >> \o Runs(Tail(s))
    ELSE LET n == find(s, args.separate[1])
         IN  <<SubSeq(s, 1, n - 1)>> \o Runs(SubSeq(s, n, Len(s)))

SubSymbolsOf(base) ==
    IF base = <<>> THEN <<>>
    ELSE IF is_separate_given THEN Runs(base) ELSE <<base>>

\* Steps 4 and 5 on a sub-symbol: the punctuation is simplified, and the
\* simplified sub-symbol is looked up in phoneme_map
LookedUp(sub) == MapOnceNonEmpty(Simplified(sub))

\* The symbols of a token, the five steps in their order; the tone goes
\* before or after the symbols of the rest of the token
OrderedToken(tok) ==
    LET subs == SubSymbolsOf(BaseOf(tok))
        mapped == chain_from_iterable([i \in 1..Len(subs) |-> LookedUp(subs[i])])
    IN  IF ToneLength(tok) = 0 THEN mapped
        ELSE IF args.tone_before THEN <<ToneOf(tok)>> \o mapped
        ELSE mapped \o <<ToneOf(tok)>>

OrderedTokens ==
    chain_from_iterable([i \in 1..Len(word_phonemes) |-> Decomposed(word_phonemes[i])])

OrderedStream ==
    chain_from_iterable([i \in 1..Len(OrderedTokens) |-> OrderedToken(OrderedTokens[i])])

\* What a step after the grapheme step can give that is longer than one
\* codepoint: a value of the punctuation map, an entry of phoneme_map
Replacements ==
    {punctuation_map[k] : k \in DOMAIN punctuation_map}
    \cup UNION {{phoneme_map[k][i] : i \in 1..Len(phoneme_map[k])} : k \in DOMAIN phoneme_map}

\* C21: both functions apply the steps in one order: graphemes, then tones
\* on every token, then separators, then punctuation on every sub-symbol,
\* then phoneme_map on the simplified sub-symbol. phonemes2ids resolves the
\* symbols of that stream in order, learn_phoneme_ids holds and counts them;
\* with separate_graphemes every symbol that no map has put in is one
\* codepoint.
C21_FixedOrder ==
    pc = "done" =>
        /\ Phonemes(LogAt("word")) = NonEmpty(OrderedStream)
        /\ all_phonemes = Symbols(OrderedStream)
        /\ DOMAIN all_phoneme_counts = Symbols(OrderedStream)
        /\ \A p \in Symbols(OrderedStream) :
              all_phoneme_counts[p] = Occurrences(p, OrderedStream)
        /\ args.separate_graphemes =>
              \A p \in Symbols(Phonemes(LogAt("word"))) \cup all_phonemes :
                  Len(p) = 1 \/ p \in Replacements

C21_Witness ==
    /\ pc = "done"
    /\ args.separate_graphemes /\ args.simple_punctuation
    /\ args.separate_tones /\ args.tone_before
    /\ args.separate = Some(STRESS)
    /\ args.punctuation_map # None /\ args.phoneme_map # None
    /\ word_phonemes = << << <<"stress1", "a">>, <<"b", "1", "2">>, Sym(",") >> >>
    /\ OrderedTokens = << Sym("stress1"), Sym("a"), Sym("b"), Sym("1"), Sym("2"), Sym(",") >>
    /\ Phonemes(LogAt("word")) =
          << Sym("stress1"), Sym("b"), Sym("a"), Sym("1"), Sym("2"), Sym("a") >>
    /\ result = Some(<<7, 2, 1, 3, 1>>)
    /\ all_phoneme_counts = (Sym("stress1") :> 1) @@ (Sym("b") :> 1) @@ (Sym("a") :> 2)
                             @@ (Sym("1") :> 1) @@ (Sym("2") :> 1)

=============================================================================
